---- MODULE Spec2Model ----
(***************************************************************************)
(* Model of the hybrid memory engine (MemoryEngine) of projectcontext.     *)
(*                                                                         *)
(* Three stores live in one SQLite connection:                             *)
(*   docs      the relational table of records,                            *)
(*   docs_fts  an FTS5 external-content table over docs (keyword index),   *)
(*   docs_vec  a vec0 table keyed by document id (vector index).           *)
(*                                                                         *)
(* The repository carries two write paths that keep them in step:          *)
(*   "explicit"  agent_memory/server.py and agentmemory/memory.py write    *)
(*               docs_fts with ordinary INSERT / DELETE statements,        *)
(*   "trigger"   projectcontext/memory.py lets AFTER triggers on docs       *)
(*               issue the FTS5 'delete' command and the re-insert.        *)
(* Both are modelled; the variable path says which engine is running.      *)
(*                                                                         *)
(* The FTS5 statements are modelled by what an external-content table      *)
(* does with them: the index is a set of (rowid, token) postings, with the *)
(* per-row size table and the per-column token totals FTS5 keeps beside    *)
(* it.  A DELETE on the FTS table reads the tokens to remove from the      *)
(* content table as it is at that moment.                                  *)
(***************************************************************************)
EXTENDS Integers, Sequences, FiniteSets, TLC

(***************************************************************************)
(* Bounds of the model.                                                    *)
(***************************************************************************)
MaxId == 2
MaxOps == 3
MaxTime == 1

(***************************************************************************)
(* Program constants.                                                      *)
(***************************************************************************)
K_CANDIDATES == 20
RRF_K == 60
MIN_CANDIDATES == 10

\* Python None / SQL NULL for a text argument, and for a timestamp
NULL == <<"NULL">>

NoTime == 0 - 1

\* days between two readings of the clock
TickDays == 365

(***************************************************************************)
(* Inputs.  A text is a sequence of symbols; "." stands for any character  *)
(* that the tokenizer drops from a document but that is syntax in an FTS5  *)
(* query string.  The three columns use disjoint vocabularies, so a        *)
(* posting (rowid, token) identifies its column.                           *)
(***************************************************************************)
Punct == {"."}
Categories == {<<"test">>, <<"ctx">>}
Topics == {<<"T">>}
Contents == {<<"blue">>, <<"green">>, <<"sky", ".", "blue">>, <<>>}
NewContents == {<<"blue">>, <<"green">>}
QueryTexts == {<<"blue">>, <<"green">>, <<"sky", ".", "blue">>}
TopKs == {0 - 1, 0, 1, 2}
Paths == {"explicit", "trigger"}

Max(S) == CHOOSE x \in S : \A y \in S : y <= x

(***************************************************************************)
(* unicode61 tokenizer: drops punctuation, folds case.                     *)
(***************************************************************************)
Lower(sym) ==
  CASE sym = "T" -> "t"
    [] sym = "U" -> "u"
    [] OTHER -> sym

Tokens(text) ==
  LET kept == SelectSeq(text, LAMBDA s : s \notin Punct)
  IN  [i \in 1..Len(kept) |-> Lower(kept[i])]

TokenSet(text) == {Tokens(text)[i] : i \in 1..Len(Tokens(text))}

ColSize(text) == Len(Tokens(text))

RowTokens(category, topic, content) ==
  TokenSet(category) \cup TokenSet(topic) \cup TokenSet(content)

RowSize(category, topic, content) ==
  ColSize(category) + ColSize(topic) + ColSize(content)

(***************************************************************************)
(* The embedder: deterministic, keeps every symbol of the text (also the   *)
(* ones the tokenizer drops).  Distance is the number of symbols in which  *)
(* two embeddings differ.                                                  *)
(***************************************************************************)
Embed(text) == {text[i] : i \in 1..Len(text)}

Distance(u, v) == Cardinality((u \ v) \cup (v \ u))

(***************************************************************************)
(* docs: id INTEGER PRIMARY KEY without AUTOINCREMENT.                     *)
(***************************************************************************)
NextRowid(d) == IF DOMAIN d = {} THEN 1 ELSE Max(DOMAIN d) + 1

Drop(f, id) == [x \in DOMAIN f \ {id} |-> f[x]]

Put(f, id, v) == (id :> v) @@ f

(***************************************************************************)
(* FTS5 external-content table.                                            *)
(*   idx   postings (rowid, token)                                         *)
(*   size  the docsize table: rowid -> number of tokens of the row         *)
(*   tot   tokens per column over all indexed rows                         *)
(*   nrow  number of indexed rows                                          *)
(***************************************************************************)
EmptyFts == [idx |-> {}, size |-> <<>>, tot |-> <<0, 0, 0>>, nrow |-> 0]

FtsInsert(f, id, category, topic, content) ==
  [idx  |-> f.idx \cup {<<id, t>> : t \in RowTokens(category, topic, content)},
   size |-> Put(f.size, id, RowSize(category, topic, content)),
   tot  |-> <<f.tot[1] + ColSize(category),
              f.tot[2] + ColSize(topic),
              f.tot[3] + ColSize(content)>>,
   nrow |-> f.nrow + 1]

\* FTS5 refuses a delete that would drive a column total or the row count
\* below zero (SQLITE_CORRUPT, "database disk image is malformed").
FtsCorrupt(f, category, topic, content) ==
  \/ f.tot[1] < ColSize(category)
  \/ f.tot[2] < ColSize(topic)
  \/ f.tot[3] < ColSize(content)
  \/ f.nrow < 1

\* INSERT INTO docs_fts(docs_fts, rowid, ...) VALUES('delete', old...)
FtsDeleteValues(f, id, category, topic, content) ==
  [idx  |-> f.idx \ {<<id, t>> : t \in RowTokens(category, topic, content)},
   size |-> Drop(f.size, id),
   tot  |-> <<f.tot[1] - ColSize(category),
              f.tot[2] - ColSize(topic),
              f.tot[3] - ColSize(content)>>,
   nrow |-> f.nrow - 1]

\* DELETE FROM docs_fts WHERE rowid = ?  The row is located through the
\* content table and its tokens are read from there: nothing happens when
\* docs has no such row, and the tokens removed are those of the row as it
\* is now.
FtsDeleteRowidFails(f, d, id) ==
  /\ id \in DOMAIN d
  /\ FtsCorrupt(f, d[id].category, d[id].topic, d[id].content)

FtsDeleteRowid(f, d, id) ==
  IF id \in DOMAIN d
  THEN FtsDeleteValues(f, id, d[id].category, d[id].topic, d[id].content)
  ELSE f

(***************************************************************************)
(* vec0 table: id -> embedding.                                            *)
(***************************************************************************)
VecInsert(v, id, e) == Put(v, id, e)

VecDelete(v, id) == Drop(v, id)

(***************************************************************************)
(* The database as one value, and the transaction boundary of              *)
(* "with self.db:": commit when the block ends normally (a return inside   *)
(* it included), rollback to the state at BEGIN when it raises.            *)
(***************************************************************************)
EmptyDb == [docs |-> <<>>, fts |-> EmptyFts, vec |-> <<>>]

Commit(begin, cur) == cur

\* a transaction that keeps its partial writes when the block raises
RollbackKeepsWrites(begin, cur) == cur

Rollback(begin, cur) == begin

Row(category, topic, content, t, p) ==
  [category |-> category, topic |-> topic, content |-> content,
   timestamp |-> t,
   last_verified |-> IF p = "explicit" THEN t ELSE NoTime]

(***************************************************************************)
(* Triggers of the trigger path (created in _init_db).                     *)
(***************************************************************************)
docs_ai(S, id) ==
  [S EXCEPT !.fts = FtsInsert(S.fts, id, S.docs[id].category,
                              S.docs[id].topic, S.docs[id].content)]

docs_ad(S, id, old) ==
  [S EXCEPT !.fts = FtsDeleteValues(S.fts, id, old.category, old.topic,
                                    old.content)]

\* an update trigger that indexes the new values without removing the old
docs_auNoDelete(S, id, old) ==
  [S EXCEPT !.fts = FtsInsert(S.fts, id, S.docs[id].category,
                              S.docs[id].topic, S.docs[id].content)]

docs_au(S, id, old) ==
  [S EXCEPT !.fts = FtsInsert(
      FtsDeleteValues(S.fts, id, old.category, old.topic, old.content),
      id, S.docs[id].category, S.docs[id].topic, S.docs[id].content)]

docs_vec_ad(S, id) == [S EXCEPT !.vec = VecDelete(S.vec, id)]

(***************************************************************************)
(* Statements on docs; on the trigger path the triggers run inside them.   *)
(***************************************************************************)
InsertDocs(S, p, id, row) ==
  LET s1 == [S EXCEPT !.docs = Put(S.docs, id, row)]
  IN  IF p = "trigger" THEN docs_ai(s1, id) ELSE s1

\* an UPDATE that also writes last_verified = NULL
UpdateDocsClearsVerified(S, p, id, category, topic, content) ==
  LET old == S.docs[id]
      s1  == [S EXCEPT !.docs[id] = [old EXCEPT !.category = category,
                                                !.topic = topic,
                                                !.content = content,
                                                !.last_verified = NoTime]]
  IN  IF p = "trigger" THEN docs_au(s1, id, old) ELSE s1

UpdateDocs(S, p, id, category, topic, content) ==
  LET old == S.docs[id]
      s1  == [S EXCEPT !.docs[id] = [old EXCEPT !.category = category,
                                                !.topic = topic,
                                                !.content = content]]
  IN  IF p = "trigger" THEN docs_au(s1, id, old) ELSE s1

DeleteDocs(S, p, id) ==
  LET old == S.docs[id]
      s1  == [S EXCEPT !.docs = Drop(S.docs, id)]
  IN  IF p = "trigger" THEN docs_vec_ad(docs_ad(s1, id, old), id) ELSE s1

\* a trigger's 'delete' command can fail like any FTS5 delete
TriggerFails(S, p, id) ==
  /\ p = "trigger"
  /\ FtsCorrupt(S.fts, S.docs[id].category, S.docs[id].topic,
                S.docs[id].content)

(***************************************************************************)
(* The steps at which a call can be made to fail.                          *)
(***************************************************************************)
FailPoints == {"none", "embed", "docs", "fts", "vec"}

Outcome(db, status, doc_id) == [db |-> db, status |-> status, doc_id |-> doc_id]

(***************************************************************************)
(* MemoryEngine.save                                                       *)
(***************************************************************************)
SaveOp(S, p, category, topic, content, t, fail) ==
  LET id == NextRowid(S.docs)
      s1 == InsertDocs(S, p, id, Row(category, topic, content, t, p))
      s2 == IF p = "explicit"
            THEN [s1 EXCEPT !.fts = FtsInsert(s1.fts, id, category, topic,
                                              content)]
            ELSE s1
      s3 == [s2 EXCEPT !.vec = VecInsert(s2.vec, id, Embed(content))]
  IN  IF fail = "embed" THEN Outcome(S, "raised", 0)
      ELSE IF fail = "docs" THEN Outcome(Rollback(S, S), "raised", 0)
      ELSE IF fail = "fts"
        THEN Outcome(Rollback(S, IF p = "explicit" THEN s1 ELSE S),
                     "raised", 0)
      ELSE IF fail = "vec" THEN Outcome(Rollback(S, s2), "raised", 0)
      ELSE Outcome(Commit(S, s3), "success", id)

(***************************************************************************)
(* MemoryEngine.update; an argument that is not supplied is NULL.          *)
(***************************************************************************)
UpdateOp(S, p, id, category, topic, content, fail) ==
  LET old == S.docs[id]
      nc  == IF category # NULL THEN category ELSE old.category
      nt  == IF topic # NULL THEN topic ELSE old.topic
      nx  == IF content # NULL THEN content ELSE old.content
      touched == category # NULL \/ topic # NULL \/ content # NULL
      s1  == UpdateDocs(S, p, id, nc, nt, nx)
      s2  == IF p = "explicit" /\ touched
             THEN [s1 EXCEPT !.fts = FtsInsert(
                      FtsDeleteRowid(s1.fts, s1.docs, id), id, nc, nt, nx)]
             ELSE s1
      s3  == [s2 EXCEPT !.vec = VecDelete(s2.vec, id)]
      s4  == [s3 EXCEPT !.vec = VecInsert(s3.vec, id, Embed(nx))]
  IN  IF id \notin DOMAIN S.docs THEN Outcome(Commit(S, S), "error", id)
      ELSE IF fail = "docs" \/ TriggerFails(S, p, id)
        THEN Outcome(Rollback(S, S), "raised", id)
      ELSE IF p = "trigger" /\ fail = "fts"
        THEN Outcome(Rollback(S, S), "raised", id)
      ELSE IF /\ p = "explicit" /\ touched
              /\ (fail = "fts" \/ FtsDeleteRowidFails(s1.fts, s1.docs, id))
        THEN Outcome(Rollback(S, s1), "raised", id)
      ELSE IF content # NULL /\ fail = "embed"
        THEN Outcome(Rollback(S, s2), "raised", id)
      ELSE IF content # NULL /\ fail = "vec"
        THEN Outcome(Rollback(S, s3), "raised", id)
      ELSE Outcome(Commit(S, IF content # NULL THEN s4 ELSE s2), "success", id)

(***************************************************************************)
(* MemoryEngine.delete                                                     *)
(***************************************************************************)
DeleteOp(S, p, id, fail) ==
  LET s1 == DeleteDocs(S, p, id)
      s2 == IF p = "explicit"
            THEN [s1 EXCEPT !.fts = FtsDeleteRowid(s1.fts, s1.docs, id)]
            ELSE s1
      s3 == IF p = "explicit"
            THEN [s2 EXCEPT !.vec = VecDelete(s2.vec, id)]
            ELSE s2
  IN  IF id \notin DOMAIN S.docs THEN Outcome(Commit(S, S), "error", id)
      ELSE IF fail = "docs" \/ TriggerFails(S, p, id)
        THEN Outcome(Rollback(S, S), "raised", id)
      ELSE IF fail = "fts"
        THEN Outcome(Rollback(S, IF p = "explicit" THEN s1 ELSE S),
                     "raised", id)
      ELSE IF fail = "vec"
        THEN Outcome(Rollback(S, IF p = "explicit" THEN s2 ELSE S),
                     "raised", id)
      ELSE Outcome(Commit(S, s3), "success", id)

(***************************************************************************)
(* verify_memory (only the engine with a last_verified column has it)      *)
(***************************************************************************)
\* verify without the existence check: the UPDATE touches no row, the call
\* still reports success
VerifyOpNoCheck(S, id, t, fail) ==
  IF fail = "docs" THEN Outcome(Rollback(S, S), "raised", id)
  ELSE Outcome(Commit(S, [S EXCEPT !.docs =
                            [x \in DOMAIN S.docs |->
                               IF x = id
                               THEN [S.docs[x] EXCEPT !.last_verified = t]
                               ELSE S.docs[x]]]),
               "success", id)

\* verify that stamps the creation time as well
VerifyOpStampsCreated(S, id, t, fail) ==
  LET s1 == [S EXCEPT !.docs[id].last_verified = t, !.docs[id].timestamp = t]
  IN  IF id \notin DOMAIN S.docs THEN Outcome(Commit(S, S), "error", id)
      ELSE IF fail = "docs" THEN Outcome(Rollback(S, S), "raised", id)
      ELSE Outcome(Commit(S, s1), "success", id)

\* verify that writes the epoch instead of the current time
VerifyOpEpoch(S, id, t, fail) ==
  LET s1 == [S EXCEPT !.docs[id].last_verified = 0]
  IN  IF id \notin DOMAIN S.docs THEN Outcome(Commit(S, S), "error", id)
      ELSE IF fail = "docs" THEN Outcome(Rollback(S, S), "raised", id)
      ELSE Outcome(Commit(S, s1), "success", id)

VerifyOp(S, id, t, fail) ==
  LET s1 == [S EXCEPT !.docs[id].last_verified = t]
  IN  IF id \notin DOMAIN S.docs THEN Outcome(Commit(S, S), "error", id)
      ELSE IF fail = "docs" THEN Outcome(Rollback(S, S), "raised", id)
      ELSE Outcome(Commit(S, s1), "success", id)

(***************************************************************************)
(* Sorting as Python's sorted / list.sort do it: stable.  Before(i, j)     *)
(* says that element i must come before element j.                         *)
(***************************************************************************)
SortBy(seq, Before(_, _)) ==
  LET n == Len(seq)
      pos == CHOOSE f \in {[i \in 1..n |->
                 1 + Cardinality({j \in 1..n :
                        Before(seq[j], seq[i])
                        \/ (~Before(seq[i], seq[j]) /\ j < i)})]} : f = f
  IN  [q \in 1..n |-> seq[CHOOSE i \in 1..n : pos[i] = q]]

\* seq[:k] of Python, also for k <= 0 (a negative k counts from the end)
Slice(seq, k) ==
  IF k >= 0 THEN SubSeq(seq, 1, IF k < Len(seq) THEN k ELSE Len(seq))
  ELSE SubSeq(seq, 1, IF Len(seq) + k > 0 THEN Len(seq) + k ELSE 0)

IndexOf(seq, x) == CHOOSE i \in 1..Len(seq) : seq[i] = x

InSeq(seq, x) == \E i \in 1..Len(seq) : seq[i] = x

(***************************************************************************)
(* SELECT rowid FROM docs_fts WHERE docs_fts MATCH ? ORDER BY rank LIMIT 20*)
(* The query string is parsed as FTS5 query syntax: the empty string and a *)
(* string with punctuation are syntax errors.  Bare terms are ANDed.  With *)
(* one occurrence per term bm25 orders the matching rows by their size,    *)
(* shortest first, rows of equal size by rowid.                            *)
(***************************************************************************)
FtsSyntaxError(text) ==
  \/ ColSize(text) = 0
  \/ \E i \in 1..Len(text) : text[i] \in Punct

FtsMatch(f, text) ==
  LET hits == {id \in {e[1] : e \in f.idx} :
                  \A t \in TokenSet(text) : <<id, t>> \in f.idx}
      sz(id) == IF id \in DOMAIN f.size THEN f.size[id] ELSE 0
      ids == SortBy(SortBy([i \in 1..Cardinality(hits) |->
                              CHOOSE id \in hits :
                                Cardinality({h \in hits : h < id}) = i - 1],
                           LAMBDA a, b : a < b),
                    LAMBDA a, b : sz(a) < sz(b))
  IN  Slice(ids, K_CANDIDATES)

(***************************************************************************)
(* SELECT id FROM docs_vec WHERE embedding MATCH ? AND k = 20              *)
(* ORDER BY distance: the k nearest rows, whatever their distance.         *)
(***************************************************************************)
VecKnn(v, q) ==
  LET ids == DOMAIN v
      byId == [i \in 1..Cardinality(ids) |->
                 CHOOSE id \in ids : Cardinality({h \in ids : h < id}) = i - 1]
  IN  Slice(SortBy(byId, LAMBDA a, b : Distance(q, v[a]) < Distance(q, v[b])),
            K_CANDIDATES)

(***************************************************************************)
(* Reciprocal Rank Fusion.  A score is an exact fraction <<num, den>>.     *)
(***************************************************************************)
FracAdd(a, b) == <<a[1] * b[2] + b[1] * a[2], a[2] * b[2]>>

FracGt(a, b) == a[1] * b[2] > b[1] * a[2]

RrfTerm(list, id) ==
  IF InSeq(list, id) THEN <<1, (IndexOf(list, id) - 1) + RRF_K>> ELSE <<0, 1>>

\* candidates kept in a list: an id in both lists is kept twice
ScoreKeysTwice(fts_rows, vec_rows) == fts_rows \o vec_rows

\* the keys of the scores dict in insertion order: keyword hits first
ScoreKeys(fts_rows, vec_rows) ==
  fts_rows \o SelectSeq(vec_rows, LAMBDA id : ~InSeq(fts_rows, id))

\* a fusion that counts ranks from 1
FusedScoreOneBased(fts_rows, vec_rows, id) ==
  FracAdd(IF InSeq(fts_rows, id)
          THEN <<1, IndexOf(fts_rows, id) + RRF_K>> ELSE <<0, 1>>,
          IF InSeq(vec_rows, id)
          THEN <<1, IndexOf(vec_rows, id) + RRF_K>> ELSE <<0, 1>>)

\* a fusion that assigns the contribution of a list instead of adding it
FusedScoreOverwrites(fts_rows, vec_rows, id) ==
  IF InSeq(vec_rows, id) THEN RrfTerm(vec_rows, id) ELSE RrfTerm(fts_rows, id)

FusedScore(fts_rows, vec_rows, id) ==
  FracAdd(RrfTerm(fts_rows, id), RrfTerm(vec_rows, id))

CandidateLimit(top_k) ==
  IF top_k * 2 > MIN_CANDIDATES THEN top_k * 2 ELSE MIN_CANDIDATES

\* candidates that are sorted but not cut to the candidate limit
CandidatesNoCut(fts_rows, vec_rows, top_k) ==
  SortBy(ScoreKeys(fts_rows, vec_rows),
         LAMBDA a, b : FracGt(FusedScore(fts_rows, vec_rows, a),
                              FusedScore(fts_rows, vec_rows, b)))

Candidates(fts_rows, vec_rows, top_k) ==
  LET keys == ScoreKeys(fts_rows, vec_rows)
      scores == CHOOSE f \in {[id \in {keys[i] : i \in 1..Len(keys)} |->
                                 FusedScore(fts_rows, vec_rows, id)]} : f = f
  IN  Slice(SortBy(keys, LAMBDA a, b : FracGt(scores[a], scores[b])),
            CandidateLimit(top_k))

(***************************************************************************)
(* Freshness.  Times are in days.  DecayE4[a] is                           *)
(* 10000 * max(0.5, 1.0 - 0.05 * ln(a + 1)), tabulated for the ages that   *)
(* occur.  A last_verified that does not parse gives 1.0.                  *)
(***************************************************************************)
DecayE4 ==
  (365 :> 7049) @@ (730 :> 6703) @@ (1095 :> 6500) @@ (1460 :> 6357)
    @@ (1500 :> 6343) @@ (1865 :> 6234)

\* a freshness factor that is always 1.0
FreshnessE4Flat(last_verified, t) == 10000

\* a freshness that takes the distance to last_verified, not the age
FreshnessE4AbsAge(last_verified, t) ==
  IF last_verified = NoTime THEN 10000
  ELSE IF t = last_verified THEN 10000
  ELSE IF t < last_verified THEN DecayE4[last_verified - t]
  ELSE DecayE4[t - last_verified]

\* a last_verified that does not parse counts as the oldest possible
FreshnessE4Floor(last_verified, t) ==
  IF last_verified = NoTime THEN 5000
  ELSE IF t - last_verified <= 0 THEN 10000
  ELSE DecayE4[t - last_verified]

FreshnessE4(last_verified, t) ==
  IF last_verified = NoTime THEN 10000
  ELSE IF t - last_verified <= 0 THEN 10000
  ELSE DecayE4[t - last_verified]

\* round(score * mult / 10000, 4) in units of 0.0001
RoundE4(score, mult) == (2 * score[1] * mult + score[2]) \div (2 * score[2])

(***************************************************************************)
(* MemoryEngine.query                                                      *)
(***************************************************************************)
\* the loop over the candidates and the final sort and slice
RankCandidates(S, p, fts_rows, vec_rows, cands, top_k, t) ==
  LET found == SelectSeq(cands, LAMBDA id : id \in DOMAIN S.docs)
      result(id) ==
        LET row  == S.docs[id]
            base == FusedScore(fts_rows, vec_rows, id)
            mult == IF p = "explicit"
                    THEN FreshnessE4(row.last_verified, t) ELSE 10000
        IN  [id |-> id, category |-> row.category, topic |-> row.topic,
             content |-> row.content, timestamp |-> row.timestamp,
             last_verified |-> row.last_verified,
             score |-> RoundE4(base, mult),
             base_score |-> RoundE4(base, 10000)]
      final_results == [i \in 1..Len(found) |-> result(found[i])]
  IN  IF p = "explicit"
      THEN Slice(SortBy(final_results, LAMBDA a, b : a.score > b.score), top_k)
      ELSE Slice(final_results, top_k)

QueryResults(S, p, text, top_k, t) ==
  CHOOSE r \in
    UNION {{RankCandidates(S, p, fts_rows, vec_rows, cands, top_k, t) :
              cands \in {Candidates(fts_rows, vec_rows, top_k)}} :
           fts_rows \in {FtsMatch(S.fts, text)},
           vec_rows \in {VecKnn(S.vec, Embed(text))}} : TRUE

\* a query that raises when there is nothing to rank
QueryOpRaisesOnEmpty(S, p, text, top_k, t, fail) ==
  IF \/ fail = "embed"
     \/ FtsSyntaxError(text)
     \/ FtsMatch(S.fts, text) = <<>> /\ VecKnn(S.vec, Embed(text)) = <<>>
  THEN [status |-> "raised", results |-> <<>>]
  ELSE [status |-> "success", results |-> QueryResults(S, p, text, top_k, t)]

QueryOp(S, p, text, top_k, t, fail) ==
  IF fail = "embed" \/ FtsSyntaxError(text)
  THEN [status |-> "raised", results |-> <<>>]
  ELSE [status |-> "success", results |-> QueryResults(S, p, text, top_k, t)]

ResultIds(results) == {results[i].id : i \in 1..Len(results)}

(***************************************************************************)
(* State.                                                                  *)
(*   path      which engine runs: "explicit" or "trigger"                  *)
(*   docs, docs_fts, docs_vec   the three tables                           *)
(*   now       the clock (CURRENT_TIMESTAMP, datetime.now())               *)
(*   ret       the last call and what it returned; for update also whether *)
(*             any optional argument was supplied                          *)
(*   nops      number of calls made (bounds the run)                       *)
(*   issued    ids returned by successful saves so far                     *)
(*   deleted   ids removed by successful deletes so far                    *)
(*   streak    how many of the latest calls, up to two, were successful    *)
(*             verify calls on the same id                                 *)
(*   frame     the locals of a query that has run its two searches and is  *)
(*             about to rank (used by RankSpec; idle otherwise)            *)
(*   threads   the calls in flight on the shared connection, each with its *)
(*             position and locals (used by ConcSpec; none otherwise)      *)
(*   begin     the tables as of the last COMMIT or ROLLBACK on the shared  *)
(*             connection: what a ROLLBACK restores                        *)
(*   agendas, tasks, agendas_fts, sqlite_sequence                          *)
(*             the tables of the agenda database (used by AgendaSpec)      *)
(*   agenda_ret  the last agenda call and what it returned                 *)
(*   fts_columns  the columns of docs_fts in the database file (changed    *)
(*             only by _init_db on a file that predates the engine)        *)
(***************************************************************************)
VARIABLES path, docs, docs_fts, docs_vec, now, ret, nops, issued, deleted,
          streak, frame

VARIABLES threads, begin

VARIABLES agendas, tasks, agendas_fts, sqlite_sequence, agenda_ret

\* the columns of the docs_fts table in the database file; none when the
\* file has no such table (read by _init_db: PRAGMA table_info(docs_fts))
VARIABLE fts_columns

schema_vars == <<fts_columns>>

\* CREATE VIRTUAL TABLE docs_fts USING fts5(category, topic, content, ...)
FtsColumns == {"category", "topic", "content"}

conc_vars == <<threads, begin>>

agenda_vars == <<agendas, tasks, agendas_fts, sqlite_sequence, agenda_ret>>

vars == <<path, docs, docs_fts, docs_vec, now, ret, nops, issued, deleted,
          streak, frame, conc_vars, agenda_vars, schema_vars>>

stores == <<docs, docs_fts, docs_vec>>

Db == [docs |-> docs, fts |-> docs_fts, vec |-> docs_vec]

Ids == 1..MaxId

\* whether update was given any of its optional arguments
Supplied(category, topic, content) ==
  category # NULL \/ topic # NULL \/ content # NULL

Call(op, status, doc_id, supplied, results) ==
  [op |-> op, status |-> status, doc_id |-> doc_id, supplied |-> supplied,
   results |-> results]

IdleFrame ==
  [pc |-> "idle", fts_rows |-> <<>>, vec_rows |-> <<>>, verified |-> <<>>,
   top_k |-> 0, results |-> <<>>]

\* no call is in flight on the connection
NoThreads ==
  /\ threads = <<>>
  /\ begin = EmptyDb

\* the agenda database as _init_db creates it
AgendaEmpty ==
  /\ agendas = <<>>
  /\ tasks = <<>>
  /\ agendas_fts = EmptyFts
  /\ sqlite_sequence = [agendas |-> 0, tasks |-> 0]
  /\ agenda_ret = [op |-> "init", status |-> "success", id |-> 0,
                   is_active |-> "None", adds |-> FALSE]

Install(S) ==
  /\ docs' = S.docs
  /\ docs_fts' = S.fts
  /\ docs_vec' = S.vec

Init ==
  /\ path \in Paths
  /\ docs = EmptyDb.docs
  /\ docs_fts = EmptyDb.fts
  /\ docs_vec = EmptyDb.vec
  /\ now = 0
  /\ ret = Call("init", "success", 0, FALSE, <<>>)
  /\ nops = 0
  /\ issued = {}
  /\ deleted = {}
  /\ streak = 0
  /\ frame = IdleFrame
  /\ NoThreads
  /\ AgendaEmpty
  /\ fts_columns = FtsColumns

Save(category, topic, content, fail) ==
  /\ nops < MaxOps
  /\ NextRowid(docs) <= MaxId
  /\ \E out \in {SaveOp(Db, path, category, topic, content, now, fail)} :
         /\ Install(out.db)
         /\ ret' = Call("save", out.status, out.doc_id, FALSE, <<>>)
         /\ issued' = IF out.status = "success"
                      THEN issued \cup {out.doc_id} ELSE issued
  /\ nops' = nops + 1
  /\ streak' = 0
  /\ UNCHANGED <<path, now, deleted, frame, conc_vars,
                 agenda_vars, schema_vars>>

Update(id, category, topic, content, fail) ==
  /\ nops < MaxOps
  /\ \E out \in {UpdateOp(Db, path, id, category, topic, content, fail)} :
         /\ Install(out.db)
         /\ ret' = Call("update", out.status, id,
                     Supplied(category, topic, content), <<>>)
  /\ nops' = nops + 1
  /\ streak' = 0
  /\ UNCHANGED <<path, now, issued, deleted, frame, conc_vars,
                 agenda_vars, schema_vars>>

Delete(id, fail) ==
  /\ nops < MaxOps
  /\ \E out \in {DeleteOp(Db, path, id, fail)} :
         /\ Install(out.db)
         /\ ret' = Call("delete", out.status, id, FALSE, <<>>)
         /\ deleted' = IF out.status = "success"
                       THEN deleted \cup {id} ELSE deleted
  /\ nops' = nops + 1
  /\ streak' = 0
  /\ UNCHANGED <<path, now, issued, frame, conc_vars,
                 agenda_vars, schema_vars>>

Verify(id, fail) ==
  /\ path = "explicit"
  /\ nops < MaxOps
  /\ \E out \in {VerifyOp(Db, id, now, fail)} :
         /\ Install(out.db)
         /\ ret' = Call("verify", out.status, id, FALSE, <<>>)
         /\ streak' = IF out.status # "success" THEN 0
                      ELSE IF streak > 0 /\ ret.doc_id = id THEN 2
                      ELSE 1
  /\ nops' = nops + 1
  /\ UNCHANGED <<path, now, issued, deleted, frame, conc_vars,
                 agenda_vars, schema_vars>>

\* a query that stamps the records it returns as verified
QueryStampsResults(text, top_k, fail) ==
  /\ nops < MaxOps
  /\ nops' = nops + 1
  /\ \E out \in {QueryOp(Db, path, text, top_k, now, fail)} :
         /\ ret' = Call("query", out.status, 0, FALSE, out.results)
         /\ docs' = [id \in DOMAIN docs |->
                       IF id \in ResultIds(out.results)
                       THEN [docs[id] EXCEPT !.last_verified = now]
                       ELSE docs[id]]
  /\ streak' = 0
  /\ UNCHANGED <<path, docs_fts, docs_vec, now, issued, deleted, frame,
                 conc_vars, agenda_vars, schema_vars>>

Query(text, top_k, fail) ==
  /\ nops < MaxOps
  /\ nops' = nops + 1
  /\ \E out \in {QueryOp(Db, path, text, top_k, now, fail)} :
         ret' = Call("query", out.status, 0, FALSE, out.results)
  /\ streak' = 0
  /\ UNCHANGED <<path, docs, docs_fts, docs_vec, now, issued, deleted, frame,
                 conc_vars, agenda_vars, schema_vars>>

\* the clock is read a year later
Tick ==
  /\ now < MaxTime * TickDays
  /\ now' = now + TickDays
  /\ UNCHANGED <<path, docs, docs_fts, docs_vec, ret, nops, issued, deleted,
                 streak, frame, conc_vars,
                 agenda_vars, schema_vars>>

(***************************************************************************)
(* Calls without an injected failure range over all inputs.  An injected   *)
(* failure does not look at the arguments of the call, so it is tried on   *)
(* one call per operation and record id: one that executes every step.     *)
(* save stores its category as it stores its topic, without looking at it: *)
(* records are created in the first category and reach the other one by    *)
(* update.                                                                 *)
(***************************************************************************)
Injected == FailPoints \ {"none"}

Next ==
  \/ \E t \in Topics, x \in Contents : Save(<<"test">>, t, x, "none")
  \/ \E f \in Injected : Save(<<"ctx">>, <<"T">>, <<"green">>, f)
  \/ \E id \in Ids, c \in Categories \cup {NULL}, t \in Topics \cup {NULL},
        x \in NewContents \cup {NULL} :
       Update(id, c, t, x, "none")
  \/ \E id \in Ids, f \in Injected :
       Update(id, <<"ctx">>, <<"T">>, <<"green">>, f)
  \/ \E id \in Ids : Delete(id, "none")
  \/ \E id \in Ids, f \in {"docs", "fts", "vec"} : Delete(id, f)
  \/ \E id \in Ids, f \in {"none", "docs"} : Verify(id, f)
  \/ \E q \in QueryTexts, k \in TopKs : Query(q, k, "none")
  \/ Query(<<"blue">>, 1, "embed")
  \/ Tick

Spec == Init /\ [][Next]_vars

(***************************************************************************)
(* The ranking half of query on its own: what query does with the two      *)
(* lists once the searches have returned, on the engine that applies       *)
(* freshness.  The inputs are drawn from bounded sets:                     *)
(*   fts_rows, vec_rows  lists of up to K_CANDIDATES distinct ids: 1, 2,   *)
(*              3, ... with the first two ids swapped or the first one     *)
(*              replaced by an id that is in no other list                 *)
(*   verified   last_verified of the docs row of each candidate id; an id  *)
(*              outside its domain has no docs row any more                *)
(*   top_k      also negative and beyond MIN_CANDIDATES / 2                *)
(* Ids 3 to 12 were verified at the time of the query, or long before it;  *)
(* ids from 13 on carry a last_verified ahead of the clock query reads     *)
(* (CURRENT_TIMESTAMP is UTC, datetime.now() is local time); id 1 may hold *)
(* a last_verified that strptime rejects (NULL, or text in another         *)
(* format).                                                                *)
(***************************************************************************)
RankIds == 1..(K_CANDIDATES + 1)

Listing(n, head) ==
  [i \in 1..n |-> IF i = 1 THEN head ELSE IF i = head THEN 1 ELSE i]

RankLists ==
  {Listing(n, head) : n \in {0, 1, 2, K_CANDIDATES},
                      head \in {1, 2, K_CANDIDATES + 1}}

RankInstants == {0, 365, 1500, 1865}

RankNow == Max(RankInstants)

RankVerified ==
  {[id \in RankIds \ rest.gone |->
      IF id = 1 THEN a ELSE IF id = 2 THEN b
      ELSE IF id \in rest.stale THEN 0
      ELSE IF id > 12 THEN RankNow + TickDays ELSE RankNow] :
     a \in {NoTime, 0, RankNow}, b \in {365, 1500},
     rest \in {[gone |-> {}, stale |-> {}], [gone |-> {3}, stale |-> {}],
               [gone |-> {}, stale |-> 3..12]}}

RankTopKs == {0 - 1, 0, 1, 2, 6}

RankDocs(verified) ==
  [id \in DOMAIN verified |->
     [Row(<<"test">>, <<"T">>, <<"blue">>, 0, "explicit")
        EXCEPT !.last_verified = verified[id]]]

RankInit ==
  /\ path = "explicit"
  /\ docs = EmptyDb.docs
  /\ docs_fts = EmptyDb.fts
  /\ docs_vec = EmptyDb.vec
  /\ now = RankNow
  /\ ret = Call("init", "success", 0, FALSE, <<>>)
  /\ nops = 0
  /\ issued = {}
  /\ deleted = {}
  /\ streak = 0
  /\ frame \in [pc : {"fetched"}, fts_rows : RankLists, vec_rows : RankLists,
                 verified : RankVerified, top_k : RankTopKs,
                 results : {<<>>}]
  /\ NoThreads
  /\ AgendaEmpty
  /\ fts_columns = FtsColumns

\* lines 244-308 of query: fuse, keep the candidates, apply freshness, sort,
\* cut
Rank ==
  /\ frame.pc = "fetched"
  /\ frame' =
       [frame EXCEPT
          !.pc = "done",
          !.results =
            RankCandidates([docs |-> RankDocs(frame.verified),
                            fts |-> docs_fts, vec |-> docs_vec],
                           path, frame.fts_rows, frame.vec_rows,
                           Candidates(frame.fts_rows, frame.vec_rows,
                                      frame.top_k),
                           frame.top_k, now)]
  /\ UNCHANGED <<path, docs, docs_fts, docs_vec, now, ret, nops, issued,
                 deleted, streak, conc_vars, agenda_vars, schema_vars>>

RankNext == Rank

RankSpec == RankInit /\ [][RankNext]_vars

(***************************************************************************)
(* Calls from different threads on the one connection the engine opens     *)
(* with check_same_thread=False.  The engine takes no lock, so the         *)
(* statements of two calls interleave; each execute(), commit() and        *)
(* rollback() is one step.  The connection has one transaction: every      *)
(* statement reads the tables as the statements before it left them,       *)
(* whoever ran them; COMMIT makes all of it permanent and ROLLBACK undoes  *)
(* all of it back to the last COMMIT or ROLLBACK.                          *)
(* The store starts with one committed record, id 1.  Thread 1 runs a      *)
(* mutation, thread 2 a mutation or a query.  The row lookups of a query   *)
(* are taken as one step.                                                  *)
(***************************************************************************)
Tids == {1, 2}

ConcTopK == 2

ConcStart ==
  SaveOp(EmptyDb, "explicit", <<"test">>, <<"T">>, <<"blue">>, 0, "none").db

ConcCall(op, doc_id, content, fail) ==
  [op |-> op, doc_id |-> doc_id, content |-> content, fail |-> fail]

ConcMutations ==
  {ConcCall("save", 0, <<"blue">>, f) : f \in {"none", "vec"}}
    \cup {ConcCall("update", id, <<"green">>, f) :
            id \in {1, 2}, f \in {"none", "vec"}}
    \cup {ConcCall("delete", 1, NULL, "none")}

ConcQueries == {ConcCall("query", 0, <<"blue">>, "none")}

\* the first statement of a call
FirstStmt(op) ==
  IF op = "save" THEN "docs"
  ELSE IF op = "query" THEN "fts"
  ELSE "select"

\* the local row of a call before its SELECT has run
NoRow ==
  [category |-> NULL, topic |-> NULL, content |-> NULL, timestamp |-> NoTime,
   last_verified |-> NoTime]

Thread(call) ==
  [op |-> call.op, doc_id |-> call.doc_id, content |-> call.content,
   fail |-> call.fail, pc |-> FirstStmt(call.op), status |-> "running",
   row |-> NoRow, fts_rows |-> <<>>, vec_rows |-> <<>>, results |-> <<>>]

ConcInit ==
  /\ path = "explicit"
  /\ docs = ConcStart.docs
  /\ docs_fts = ConcStart.fts
  /\ docs_vec = ConcStart.vec
  /\ now = 0
  /\ ret = Call("init", "success", 0, FALSE, <<>>)
  /\ nops = 0
  /\ issued = {1}
  /\ deleted = {}
  /\ streak = 0
  /\ frame = IdleFrame
  /\ threads \in {[t \in Tids |-> Thread(IF t = 1 THEN a ELSE b)] :
                    a \in ConcMutations,
                    b \in ConcMutations \cup ConcQueries}
  /\ begin = ConcStart
  /\ AgendaEmpty
  /\ fts_columns = FtsColumns

\* thread t has run a statement: the tables and its locals change
Ran(t, S, th) ==
  /\ Install(S)
  /\ threads' = [threads EXCEPT ![t] = th]
  /\ UNCHANGED <<path, now, ret, nops, issued, deleted, streak, frame, begin,
                 agenda_vars, schema_vars>>

\* the statement raises: the with block is left with the exception
Raises(th) == [th EXCEPT !.status = "raised", !.pc = "exit"]

\* MemoryEngine.save, statement by statement
SaveStep(t) ==
  LET th == threads[t]
      id == NextRowid(docs)
  IN  /\ th.op = "save"
      /\ th.pc \in {"docs", "fts", "vec"}
      /\ IF th.fail = th.pc THEN Ran(t, Db, Raises(th))
         ELSE IF th.pc = "docs"
           THEN Ran(t, InsertDocs(Db, path, id,
                                  Row(<<"test">>, <<"T">>, th.content, now,
                                      path)),
                    [th EXCEPT !.doc_id = id, !.pc = "fts"])
         ELSE IF th.pc = "fts"
           THEN Ran(t, [Db EXCEPT !.fts = FtsInsert(docs_fts, th.doc_id,
                                                    <<"test">>, <<"T">>,
                                                    th.content)],
                    [th EXCEPT !.pc = "vec"])
         ELSE Ran(t, [Db EXCEPT !.vec = VecInsert(docs_vec, th.doc_id,
                                                  Embed(th.content))],
                  [th EXCEPT !.status = "success", !.pc = "exit"])

\* MemoryEngine.update with content alone, statement by statement; the
\* category and topic written are the ones the SELECT returned
UpdateStep(t) ==
  LET th == threads[t]
      id == th.doc_id
  IN  /\ th.op = "update"
      /\ th.pc \in {"select", "docs", "fts_delete", "fts_insert",
                     "vec_delete", "vec_insert"}
      /\ IF th.pc = "select"
           THEN IF id \in DOMAIN docs
                THEN Ran(t, Db, [th EXCEPT !.row = docs[id], !.pc = "docs"])
                ELSE Ran(t, Db, [th EXCEPT !.status = "error", !.pc = "exit"])
         ELSE IF th.pc = "docs"
           THEN Ran(t, IF id \in DOMAIN docs
                       THEN UpdateDocs(Db, path, id, th.row.category,
                                       th.row.topic, th.content)
                       ELSE Db,
                    [th EXCEPT !.pc = "fts_delete"])
         ELSE IF th.pc = "fts_delete"
           THEN IF FtsDeleteRowidFails(docs_fts, docs, id)
                THEN Ran(t, Db, Raises(th))
                ELSE Ran(t, [Db EXCEPT !.fts = FtsDeleteRowid(docs_fts, docs,
                                                              id)],
                         [th EXCEPT !.pc = "fts_insert"])
         ELSE IF th.pc = "fts_insert"
           THEN Ran(t, [Db EXCEPT !.fts = FtsInsert(docs_fts, id,
                                                    th.row.category,
                                                    th.row.topic, th.content)],
                    [th EXCEPT !.pc = "vec_delete"])
         ELSE IF th.pc = "vec_delete"
           THEN Ran(t, [Db EXCEPT !.vec = VecDelete(docs_vec, id)],
                    [th EXCEPT !.pc = "vec_insert"])
         ELSE IF th.fail = "vec" THEN Ran(t, Db, Raises(th))
         ELSE Ran(t, [Db EXCEPT !.vec = VecInsert(docs_vec, id,
                                                  Embed(th.content))],
                  [th EXCEPT !.status = "success", !.pc = "exit"])

\* MemoryEngine.delete, statement by statement
DeleteStep(t) ==
  LET th == threads[t]
      id == th.doc_id
  IN  /\ th.op = "delete"
      /\ th.pc \in {"select", "docs", "fts", "vec"}
      /\ IF th.pc = "select"
           THEN IF id \in DOMAIN docs
                THEN Ran(t, Db, [th EXCEPT !.pc = "docs"])
                ELSE Ran(t, Db, [th EXCEPT !.status = "error", !.pc = "exit"])
         ELSE IF th.pc = "docs"
           THEN Ran(t, [Db EXCEPT !.docs = Drop(docs, id)],
                    [th EXCEPT !.pc = "fts"])
         ELSE IF th.pc = "fts"
           THEN IF FtsDeleteRowidFails(docs_fts, docs, id)
                THEN Ran(t, Db, Raises(th))
                ELSE Ran(t, [Db EXCEPT !.fts = FtsDeleteRowid(docs_fts, docs,
                                                              id)],
                         [th EXCEPT !.pc = "vec"])
         ELSE Ran(t, [Db EXCEPT !.vec = VecDelete(docs_vec, id)],
                  [th EXCEPT !.status = "success", !.pc = "exit"])

\* MemoryEngine.query: the keyword search, the vector search, then fusion,
\* row lookups, freshness, sort and cut
QueryStep(t) ==
  LET th == threads[t]
  IN  /\ th.op = "query"
      /\ th.pc \in {"fts", "vec", "rows"}
      /\ IF th.pc = "fts"
           THEN \E rows \in {FtsMatch(docs_fts, th.content)} :
                  Ran(t, Db, [th EXCEPT !.fts_rows = rows, !.pc = "vec"])
         ELSE IF th.pc = "vec"
           THEN \E rows \in {VecKnn(docs_vec, Embed(th.content))} :
                  Ran(t, Db, [th EXCEPT !.vec_rows = rows, !.pc = "rows"])
         ELSE \E cands \in {Candidates(th.fts_rows, th.vec_rows, ConcTopK)} :
                \E results \in {RankCandidates(Db, path, th.fts_rows,
                                                th.vec_rows, cands, ConcTopK,
                                                now)} :
                  Ran(t, Db, [th EXCEPT !.results = results,
                                        !.status = "success", !.pc = "done"])

\* an exit that waits while another call is about to leave its with block
ExitWithWaits(t) ==
  LET th == threads[t]
  IN  /\ th.op \in {"save", "update", "delete", "verify"}
      /\ th.pc = "exit"
      /\ \A u \in Tids \ {t} : threads[u].pc # "exit"
      /\ threads' = [threads EXCEPT ![t] = [th EXCEPT !.pc = "done"]]
      /\ IF th.status = "raised"
           THEN /\ Install(Rollback(begin, Db))
                /\ UNCHANGED begin
           ELSE /\ begin' = Commit(begin, Db)
                /\ UNCHANGED stores
      /\ UNCHANGED <<path, now, ret, nops, issued, deleted, streak, frame,
                     agenda_vars, schema_vars>>

\* a mutation leaves its with block: COMMIT, or ROLLBACK if it raised
ExitWith(t) ==
  LET th == threads[t]
  IN  /\ th.op \in {"save", "update", "delete", "verify"}
      /\ th.pc = "exit"
      /\ threads' = [threads EXCEPT ![t] = [th EXCEPT !.pc = "done"]]
      /\ IF th.status = "raised"
           THEN /\ Install(Rollback(begin, Db))
                /\ UNCHANGED begin
           ELSE /\ begin' = Commit(begin, Db)
                /\ UNCHANGED stores
      /\ UNCHANGED <<path, now, ret, nops, issued, deleted, streak, frame,
                     agenda_vars, schema_vars>>

ConcNext ==
  \E t \in Tids :
    \/ SaveStep(t)
    \/ UpdateStep(t)
    \/ DeleteStep(t)
    \/ QueryStep(t)
    \/ ExitWith(t)

ConcSpec == ConcInit /\ [][ConcNext]_vars

(***************************************************************************)
(* The same calls and verify_memory under fair scheduling: a thread that   *)
(* can take a step eventually takes one.  No call takes a lock or waits    *)
(* for a condition, so every statement of a call can always run.  The     *)
(* first thread makes the calls on the record that exists, with and        *)
(* without a failing statement; the second makes each call, also on the    *)
(* id that has no record, without one.                                     *)
(***************************************************************************)
ConcVerifies ==
  {ConcCall("verify", id, NULL, "none") : id \in {1, 2}}
    \cup {ConcCall("verify", 1, NULL, "docs")}

ConcFairInit ==
  /\ path = "explicit"
  /\ docs = ConcStart.docs
  /\ docs_fts = ConcStart.fts
  /\ docs_vec = ConcStart.vec
  /\ now = TickDays
  /\ ret = Call("init", "success", 0, FALSE, <<>>)
  /\ nops = 0
  /\ issued = {1}
  /\ deleted = {}
  /\ streak = 0
  /\ frame = IdleFrame
  /\ threads \in {[t \in Tids |-> Thread(IF t = 1 THEN a ELSE b)] :
                    a \in {c \in ConcMutations \cup ConcVerifies :
                             c.doc_id # 2},
                    b \in {c \in ConcMutations \cup ConcVerifies
                                  \cup ConcQueries : c.fail = "none"}}
  /\ begin = ConcStart
  /\ AgendaEmpty
  /\ fts_columns = FtsColumns

\* verify_memory, statement by statement
VerifyStep(t) ==
  LET th == threads[t]
      id == th.doc_id
  IN  /\ th.op = "verify"
      /\ th.pc \in {"select", "docs"}
      /\ IF th.pc = "select"
           THEN IF id \in DOMAIN docs
                THEN Ran(t, Db, [th EXCEPT !.pc = "docs"])
                ELSE Ran(t, Db, [th EXCEPT !.status = "error", !.pc = "exit"])
         ELSE IF th.fail = "docs" THEN Ran(t, Db, Raises(th))
         ELSE Ran(t, IF id \in DOMAIN docs
                     THEN [Db EXCEPT !.docs[id].last_verified = now]
                     ELSE Db,
                  [th EXCEPT !.status = "success", !.pc = "exit"])

ThreadStep(t) ==
  \/ SaveStep(t)
  \/ UpdateStep(t)
  \/ DeleteStep(t)
  \/ QueryStep(t)
  \/ VerifyStep(t)
  \/ ExitWith(t)

ConcFairNext == \E t \in Tids : ThreadStep(t)

ConcFairSpec ==
  /\ ConcFairInit
  /\ [][ConcFairNext]_vars
  /\ \A t \in Tids : WF_vars(ThreadStep(t))

(***************************************************************************)
(* AgendaEngine.  agendas and tasks have AUTOINCREMENT ids: the next id is *)
(* one more than the largest ever given, kept in sqlite_sequence.          *)
(* agendas_fts is an FTS5 external-content table over title and            *)
(* description, kept by the triggers agendas_ai, agendas_ad, agendas_au.   *)
(* tasks.agenda_id is declared REFERENCES agendas(id) ON DELETE CASCADE;   *)
(* SQLite enforces foreign keys only on a connection that has run          *)
(* PRAGMA foreign_keys = ON.                                               *)
(***************************************************************************)
MaxAgendas == 1

MaxTasks == 3

SearchLimit == 10

\* the engine never runs PRAGMA foreign_keys = ON
foreign_keys == FALSE

\* create_agenda is given the first title and description, update_agenda
\* neither or the second of both
Titles == <<<<"plan">>, <<"updated">>>>

Descriptions == <<<<"test">>, <<"notes">>>>

TaskRequired == [details |-> <<"task">>, is_optional |-> FALSE]

TaskOptional == [details |-> <<"task">>, is_optional |-> TRUE]

TaskLists == {<<TaskOptional>>, <<TaskRequired, TaskOptional>>}

\* new_tasks of update_agenda; to its "if new_tasks" None is the empty list
NewTaskLists == {<<>>, <<TaskRequired>>}

\* is_active of update_agenda: bool | None
IsActiveArgs == {"None", "True", "False"}

SearchQueries == {<<"plan">>, <<"updated">>, <<"notes">>, <<"task">>}

AgendaIds == 1..MaxAgendas

TaskIds == 1..MaxTasks

AgendaDb ==
  [agendas |-> agendas, tasks |-> tasks, fts |-> agendas_fts,
   seq |-> sqlite_sequence]

AgendaOutcome(db, status, id) == [db |-> db, status |-> status, id |-> id]

\* the tasks of an agenda
TasksOf(t, id) == {x \in DOMAIN t : t[x].agenda_id = id}

agendas_ai(S, id) ==
  [S EXCEPT !.fts = FtsInsert(S.fts, id, S.agendas[id].title,
                              S.agendas[id].description, <<>>)]

agendas_ad(S, id, old) ==
  [S EXCEPT !.fts = FtsDeleteValues(S.fts, id, old.title, old.description,
                                    <<>>)]

\* an update trigger that leaves the old entry in the index
agendas_auNoDelete(S, id, old) == agendas_ai(S, id)

agendas_au(S, id, old) == agendas_ai(agendas_ad(S, id, old), id)

\* UPDATE agendas SET ... WHERE id = ?, with its trigger
UpdateAgendas(S, id, row) ==
  agendas_au([S EXCEPT !.agendas[id] = row], id, S.agendas[id])

\* DELETE FROM agendas WHERE id = ?, with its trigger and, where foreign
\* keys are enforced, the cascade to tasks
DeleteAgendas(S, id) ==
  LET s1 == agendas_ad([S EXCEPT !.agendas = Drop(S.agendas, id)], id,
                       S.agendas[id])
  IN  IF foreign_keys
      THEN [s1 EXCEPT !.tasks = [x \in DOMAIN S.tasks \ TasksOf(S.tasks, id)
                                   |-> S.tasks[x]]]
      ELSE s1

\* INSERT INTO tasks for each task of the list, task_order from start on
InsertTasks(S, id, start, list) ==
  LET first == S.seq.tasks + 1
      last  == S.seq.tasks + Len(list)
  IN  [S EXCEPT
         !.tasks = [x \in DOMAIN S.tasks \cup first..last |->
                      IF x \in DOMAIN S.tasks THEN S.tasks[x]
                      ELSE [agenda_id |-> id,
                            task_order |-> start + (x - first),
                            is_optional |-> list[x - first + 1].is_optional,
                            details |-> list[x - first + 1].details,
                            is_completed |-> FALSE]],
         !.seq.tasks = last]

(***************************************************************************)
(* AgendaEngine.create_agenda                                              *)
(***************************************************************************)
CreateAgendaOp(S, list, title, description) ==
  LET id == S.seq.agendas + 1
      s1 == agendas_ai([S EXCEPT !.agendas =
                                    Put(S.agendas, id,
                                        [is_active |-> TRUE, title |-> title,
                                         description |-> description]),
                                 !.seq.agendas = id], id)
  IN  AgendaOutcome(InsertTasks(s1, id, 0, list), "success", id)

(***************************************************************************)
(* AgendaEngine.update_task                                                *)
(***************************************************************************)
\* a count that takes optional tasks too
RemainingWithOptional(t, id) ==
  Cardinality({x \in TasksOf(t, id) : ~t[x].is_completed})

\* SELECT COUNT(*) ... AND is_optional = 0 AND is_completed = 0
Remaining(t, id) ==
  Cardinality({x \in TasksOf(t, id) :
                 ~t[x].is_optional /\ ~t[x].is_completed})

\* update_task without the check that the agenda is still active
UpdateTaskOpNoActiveCheck(S, task_id, is_completed) ==
  IF task_id \notin DOMAIN S.tasks THEN AgendaOutcome(S, "error", task_id)
  ELSE IF S.tasks[task_id].agenda_id \notin DOMAIN S.agendas
    THEN AgendaOutcome(S, "raised", task_id)
  ELSE LET id == S.tasks[task_id].agenda_id
           s1 == [S EXCEPT !.tasks[task_id].is_completed = is_completed]
       IN  IF Remaining(s1.tasks, id) = 0
           THEN AgendaOutcome(
                  UpdateAgendas(s1, id,
                                [s1.agendas[id] EXCEPT !.is_active = FALSE]),
                  "success", task_id)
           ELSE AgendaOutcome(s1, "success", task_id)

UpdateTaskOp(S, task_id, is_completed) ==
  IF task_id \notin DOMAIN S.tasks THEN AgendaOutcome(S, "error", task_id)
  ELSE IF S.tasks[task_id].agenda_id \notin DOMAIN S.agendas
    \* fetchone() returns None and [0] raises: the with block rolls back
    THEN AgendaOutcome(S, "raised", task_id)
  ELSE LET id == S.tasks[task_id].agenda_id
           s1 == [S EXCEPT !.tasks[task_id].is_completed = is_completed]
       IN  IF ~S.agendas[id].is_active
           THEN AgendaOutcome(S, "error", task_id)
           ELSE IF Remaining(s1.tasks, id) = 0
           THEN AgendaOutcome(
                  UpdateAgendas(s1, id,
                                [s1.agendas[id] EXCEPT !.is_active = FALSE]),
                  "success", task_id)
           ELSE AgendaOutcome(s1, "success", task_id)

(***************************************************************************)
(* AgendaEngine.update_agenda.  A return inside the with block commits     *)
(* what the call has written so far.                                       *)
(***************************************************************************)
\* SELECT MAX(task_order) FROM tasks WHERE agenda_id = ?, plus one
StartOrder(t, id) ==
  IF TasksOf(t, id) = {} THEN 0
  ELSE Max({t[x].task_order : x \in TasksOf(t, id)}) + 1

\* update_agenda that sets is_active as asked, to true as well
UpdateAgendaOpReactivates(S, id, is_active, new_tasks, title, description) ==
  IF id \notin DOMAIN S.agendas THEN AgendaOutcome(S, "error", id)
  ELSE
    LET row == S.agendas[id]
        s1  == IF title # NULL \/ description # NULL
               THEN UpdateAgendas(S, id,
                      [row EXCEPT
                         !.title = IF title # NULL THEN title ELSE @,
                         !.description = IF description # NULL
                                         THEN description ELSE @])
               ELSE S
        s2  == IF is_active # "None"
               THEN UpdateAgendas(s1, id,
                      [s1.agendas[id] EXCEPT
                         !.is_active = (is_active = "True")])
               ELSE s1
        current_is_active == s2.agendas[id].is_active
    IN  IF Len(new_tasks) > 0 /\ ~current_is_active
        THEN AgendaOutcome(s2, "error", id)
        ELSE IF Len(new_tasks) > 0
        THEN AgendaOutcome(InsertTasks(s2, id, StartOrder(s2.tasks, id),
                                       new_tasks),
                           "success", id)
        ELSE AgendaOutcome(s2, "success", id)

UpdateAgendaOp(S, id, is_active, new_tasks, title, description) ==
  IF id \notin DOMAIN S.agendas THEN AgendaOutcome(S, "error", id)
  ELSE
    LET row == S.agendas[id]
        s1  == IF title # NULL \/ description # NULL
               THEN UpdateAgendas(S, id,
                      [row EXCEPT
                         !.title = IF title # NULL THEN title ELSE @,
                         !.description = IF description # NULL
                                         THEN description ELSE @])
               ELSE S
        s2  == IF is_active = "False"
               THEN UpdateAgendas(s1, id, [s1.agendas[id] EXCEPT
                                             !.is_active = FALSE])
               ELSE s1
        current_is_active == row.is_active /\ is_active # "False"
    IN  IF is_active = "True" /\ ~row.is_active
        THEN AgendaOutcome(s1, "error", id)
        ELSE IF Len(new_tasks) > 0 /\ ~current_is_active
        THEN AgendaOutcome(s2, "error", id)
        ELSE IF Len(new_tasks) > 0
        THEN AgendaOutcome(InsertTasks(s2, id, StartOrder(s2.tasks, id),
                                       new_tasks),
                           "success", id)
        ELSE AgendaOutcome(s2, "success", id)

(***************************************************************************)
(* AgendaEngine.delete_agenda                                              *)
(***************************************************************************)
\* delete_agenda without the check that the agenda is inactive
DeleteAgendaOpNoActiveCheck(S, id) ==
  IF id \notin DOMAIN S.agendas THEN AgendaOutcome(S, "error", id)
  ELSE AgendaOutcome(DeleteAgendas(S, id), "success", id)

DeleteAgendaOp(S, id) ==
  IF id \notin DOMAIN S.agendas THEN AgendaOutcome(S, "error", id)
  ELSE IF S.agendas[id].is_active THEN AgendaOutcome(S, "error", id)
  ELSE AgendaOutcome(DeleteAgendas(S, id), "success", id)

(***************************************************************************)
(* AgendaEngine.search_agendas: the rowids the index matches, then         *)
(* get_agenda on each; a rowid without an agendas row is left out.         *)
(***************************************************************************)
SearchAgendasOp(S, query) ==
  IF FtsSyntaxError(query) THEN [status |-> "raised", results |-> <<>>]
  ELSE [status |-> "success",
        results |-> SelectSeq(Slice(FtsMatch(S.fts, query), SearchLimit),
                              LAMBDA id : id \in DOMAIN S.agendas)]

AgendaCall(op, status, id, is_active, adds) ==
  [op |-> op, status |-> status, id |-> id, is_active |-> is_active,
   adds |-> adds]

AgendaInstall(S) ==
  /\ agendas' = S.agendas
  /\ tasks' = S.tasks
  /\ agendas_fts' = S.fts
  /\ sqlite_sequence' = S.seq

memory_vars ==
  <<path, docs, docs_fts, docs_vec, now, ret, nops, issued, deleted, streak,
    frame, conc_vars, schema_vars>>

AgendaInit ==
  /\ path = "explicit"
  /\ docs = EmptyDb.docs
  /\ docs_fts = EmptyDb.fts
  /\ docs_vec = EmptyDb.vec
  /\ now = 0
  /\ ret = Call("init", "success", 0, FALSE, <<>>)
  /\ nops = 0
  /\ issued = {}
  /\ deleted = {}
  /\ streak = 0
  /\ frame = IdleFrame
  /\ NoThreads
  /\ AgendaEmpty
  /\ fts_columns = FtsColumns

CreateAgenda(list, title, description) ==
  /\ sqlite_sequence.agendas < MaxAgendas
  /\ sqlite_sequence.tasks + Len(list) <= MaxTasks
  /\ \E out \in {CreateAgendaOp(AgendaDb, list, title, description)} :
         /\ AgendaInstall(out.db)
         /\ agenda_ret' = AgendaCall("create_agenda", out.status, out.id,
                                     "None", Len(list) > 0)
  /\ UNCHANGED memory_vars

UpdateTask(task_id, is_completed) ==
  /\ \E out \in {UpdateTaskOp(AgendaDb, task_id, is_completed)} :
         /\ AgendaInstall(out.db)
         /\ agenda_ret' = AgendaCall("update_task", out.status, task_id,
                                     "None", FALSE)
  /\ UNCHANGED memory_vars

UpdateAgenda(id, is_active, new_tasks, title, description) ==
  /\ sqlite_sequence.tasks + Len(new_tasks) <= MaxTasks
  /\ \E out \in {UpdateAgendaOp(AgendaDb, id, is_active, new_tasks, title,
                                 description)} :
         /\ AgendaInstall(out.db)
         /\ agenda_ret' = AgendaCall("update_agenda", out.status, id,
                                     is_active, Len(new_tasks) > 0)
  /\ UNCHANGED memory_vars

DeleteAgenda(id) ==
  /\ \E out \in {DeleteAgendaOp(AgendaDb, id)} :
         /\ AgendaInstall(out.db)
         /\ agenda_ret' = AgendaCall("delete_agenda", out.status, id,
                                     "None", FALSE)
  /\ UNCHANGED memory_vars

SearchAgendas(query) ==
  /\ \E out \in {SearchAgendasOp(AgendaDb, query)} :
         agenda_ret' = AgendaCall("search_agendas", out.status, 0, "None",
                                  FALSE)
  /\ UNCHANGED <<agendas, tasks, agendas_fts, sqlite_sequence>>
  /\ UNCHANGED memory_vars

AgendaNext ==
  \/ \E list \in TaskLists : CreateAgenda(list, Titles[1], Descriptions[1])
  \/ \E x \in TaskIds, c \in BOOLEAN : UpdateTask(x, c)
  \/ \E id \in AgendaIds, a \in IsActiveArgs, list \in NewTaskLists :
       \/ UpdateAgenda(id, a, list, NULL, NULL)
       \/ UpdateAgenda(id, a, list, Titles[2], Descriptions[2])
  \/ \E id \in AgendaIds : DeleteAgenda(id)
  \/ \E q \in SearchQueries : SearchAgendas(q)

AgendaSpec == AgendaInit /\ [][AgendaNext]_vars

Inactive(id) == id \in DOMAIN agendas /\ ~agendas[id].is_active

TypeOK ==
  /\ path \in Paths
  /\ DOMAIN docs \subseteq Ids
  /\ DOMAIN docs_vec \subseteq Ids
  /\ now \in 0..(MaxTime * TickDays)
  /\ nops \in 0..MaxOps
  /\ streak \in 0..2

(***************************************************************************)
(* What the indexes hold for an id.                                        *)
(***************************************************************************)
Postings(f, id) == {e[2] : e \in {x \in f.idx : x[1] = id}}

KeywordIds(f) == {e[1] : e \in f.idx} \cup DOMAIN f.size

\* this step is a completed call of op
Called(op) == nops' = nops + 1 /\ ret'.op = op

OthersUnchanged(id) ==
  /\ \A x \in DOMAIN docs \ {id} : x \in DOMAIN docs' /\ docs'[x] = docs[x]
  /\ \A x \in DOMAIN docs' \ {id} : x \in DOMAIN docs
  /\ \A x \in Ids \ {id} : Postings(docs_fts', x) = Postings(docs_fts, x)
  /\ \A x \in DOMAIN docs_vec \ {id} :
       x \in DOMAIN docs_vec' /\ docs_vec'[x] = docs_vec[x]
  /\ \A x \in DOMAIN docs_vec' \ {id} : x \in DOMAIN docs_vec

(***************************************************************************)
(* C1: in the initial state and after every completed save, update, delete *)
(* or verify, the ids of the Document Store, of the Keyword Index and of   *)
(* the Vector Index are the same set.                                      *)
(* Fails on the explicit write path: delete removes the docs row first, so *)
(* DELETE FROM docs_fts finds no row and the postings stay.                *)
(***************************************************************************)
C1_SameIdsInAllStores ==
  /\ KeywordIds(docs_fts) = DOMAIN docs
  /\ DOMAIN docs_vec = DOMAIN docs

(***************************************************************************)
(* C2: after every completed mutation, for every record id the Keyword     *)
(* Index entry is exactly the record's current category, topic and content *)
(* and the Vector Index entry is the embedding of the current content.     *)
(* Fails on the explicit write path: update rewrites docs first, so the    *)
(* DELETE on docs_fts removes the new tokens and the old ones stay.        *)
(***************************************************************************)
C2_IndexesMirrorRecord ==
  \A id \in DOMAIN docs :
    /\ Postings(docs_fts, id) =
         RowTokens(docs[id].category, docs[id].topic, docs[id].content)
    /\ id \in DOMAIN docs_vec
    /\ docs_vec[id] = Embed(docs[id].content)

(***************************************************************************)
(* C3: save, update and delete are all-or-nothing: when a step of the call *)
(* fails (the call raises), the three stores are as they were before.      *)
(***************************************************************************)
C3_AllOrNothing ==
  [][(/\ nops' = nops + 1
      /\ ret'.op \in {"save", "update", "delete"}
      /\ ret'.status = "raised")
     => UNCHANGED stores]_vars

\* an update of an existing record has raised part-way
C3_Witness ==
  /\ ret.op = "update"
  /\ ret.status = "raised"
  /\ ret.doc_id \in DOMAIN docs

(***************************************************************************)
(* C4: delete(id) on an existing id returns success, and afterwards the    *)
(* record, the Keyword Index entry of id and the Vector Index entry of id  *)
(* are absent, every other record and its index entries unchanged.         *)
(* Fails on the explicit write path (the postings of id stay).             *)
(***************************************************************************)
C4_DeleteRemovesAllThree ==
  [][(/\ Called("delete")
      /\ ret'.doc_id \in DOMAIN docs
      /\ ret'.status # "raised")
     => (/\ ret'.status = "success"
         /\ ret'.doc_id \notin DOMAIN docs'
         /\ ret'.doc_id \notin KeywordIds(docs_fts')
         /\ ret'.doc_id \notin DOMAIN docs_vec'
         /\ OthersUnchanged(ret'.doc_id))]_vars

(***************************************************************************)
(* C5: update, delete and verify with an id that is not in the Document    *)
(* Store return a structured error (they do not raise) and leave the three *)
(* stores unchanged.                                                       *)
(***************************************************************************)
C5_NotFoundIsStructured ==
  [][(/\ nops' = nops + 1
      /\ ret'.op \in {"update", "delete", "verify"}
      /\ ret'.doc_id \notin DOMAIN docs)
     => (ret'.status = "error" /\ UNCHANGED stores)]_vars

\* a call on an absent id has returned its error while other records exist
C5_Witness ==
  /\ ret.op \in {"update", "delete", "verify"}
  /\ ret.status = "error"
  /\ ret.doc_id \notin DOMAIN docs
  /\ DOMAIN docs # {}

(***************************************************************************)
(* C6: the id returned by a save is strictly greater than every id         *)
(* returned by an earlier save, deleted ones included.                     *)
(* Fails: INTEGER PRIMARY KEY without AUTOINCREMENT hands out max(id) + 1, *)
(* so deleting the newest record frees its id.                             *)
(***************************************************************************)
C6_IdsNeverReused ==
  [][(Called("save") /\ ret'.status = "success")
     => \A i \in issued : ret'.doc_id > i]_vars

(***************************************************************************)
(* C7: save with empty content fails before any mutation: no successful    *)
(* save leaves a record with empty content.                                *)
(* Fails: save validates nothing.                                          *)
(***************************************************************************)
C7_EmptyContentRejected ==
  (ret.op = "save" /\ ret.status = "success")
    => docs[ret.doc_id].content # <<>>

(***************************************************************************)
(* C8: save(category, topic, content) followed immediately by              *)
(* query(content, top_k), top_k >= 1, returns a list that contains the id  *)
(* just saved.                                                             *)
(* Fails: the content is handed to MATCH as FTS5 query syntax, so content  *)
(* with punctuation makes query raise; and with top_k = 1 an older record  *)
(* with the same content is returned instead.                              *)
(***************************************************************************)
C8_SavedIsFound ==
  (/\ ret.op = "save"
   /\ ret.status = "success"
   /\ docs[ret.doc_id].content # <<>>)
    => \A k \in {n \in TopKs : n >= 1} :
         LET out == QueryOp(Db, path, docs[ret.doc_id].content, k, now, "none")
         IN  out.status = "success" /\ ret.doc_id \in ResultIds(out.results)

(***************************************************************************)
(* C9: after a successful delete of id, no later query, with any text and  *)
(* top_k and after any further calls, returns id.                          *)
(* Fails because ids are reused (C6): the next save can get the deleted    *)
(* id, and on the explicit path it also inherits the deleted record's      *)
(* postings.                                                               *)
(***************************************************************************)
C9_DeletedNeverReturned ==
  \A q \in QueryTexts, k \in TopKs :
    ResultIds(QueryOp(Db, path, q, k, now, "none").results) \cap deleted = {}

(***************************************************************************)
(* C10: after update(id, content=new) succeeds, query(old text, 1) does    *)
(* not return id and query(new text, 1) returns id, also when id is the    *)
(* only record.                                                            *)
(* Fails: the vector search returns the nearest rows whatever their        *)
(* distance, so the only record is returned for any text; on the explicit  *)
(* path the old words are still posted as well.                            *)
(***************************************************************************)
C10_UpdateMovesQueryHit ==
  [][(/\ Called("update")
      /\ ret'.status = "success"
      /\ docs[ret'.doc_id].content # <<>>
      /\ TokenSet(docs[ret'.doc_id].content)
           \cap TokenSet(docs'[ret'.doc_id].content) = {})
     => (/\ ret'.doc_id \notin
              ResultIds(QueryOp(Db', path, docs[ret'.doc_id].content, 1,
                                now', "none").results)
         /\ ret'.doc_id \in
              ResultIds(QueryOp(Db', path, docs'[ret'.doc_id].content, 1,
                                now', "none").results))]_vars

(***************************************************************************)
(* C11: update(id) on an existing id with none of category, topic and      *)
(* content supplied returns success and leaves the record (created_at and  *)
(* last_verified_at included), the Keyword Index and the Vector Index as   *)
(* they were.                                                              *)
(***************************************************************************)
C11_NoFieldUpdateIsNoOp ==
  [][(/\ Called("update")
      /\ ret'.doc_id \in DOMAIN docs
      /\ ~ret'.supplied)
     => (ret'.status = "success" /\ UNCHANGED stores)]_vars

\* an update without fields has returned on the engine whose update trigger
\* rewrites the keyword entry
C11_Witness ==
  /\ path = "trigger"
  /\ ret.op = "update"
  /\ ~ret.supplied
  /\ ret.status = "success"
  /\ ret.doc_id \in DOMAIN docs

(***************************************************************************)
(* C12: for every subset of {category, topic, content} supplied to update  *)
(* on an existing id, after the call each supplied field has the supplied  *)
(* value, each unsupplied field its value from before, and no other record *)
(* is changed.                                                             *)
(* Fails on the explicit write path: when the new content has more words   *)
(* than the keyword index has counted, the DELETE on docs_fts raises and   *)
(* the update is rolled back.                                              *)
(***************************************************************************)
C12_SuppliedFieldsWritten ==
  \A id \in DOMAIN docs :
    \A c \in Categories \cup {NULL}, t \in Topics \cup {NULL},
       x \in (Contents \ {<<>>}) \cup {NULL} :
      docs[id].content # <<>> =>
        LET after == UpdateOp(Db, path, id, c, t, x, "none").db.docs
        IN  /\ DOMAIN after = DOMAIN docs
            /\ after[id].category = (IF c # NULL THEN c ELSE docs[id].category)
            /\ after[id].topic = (IF t # NULL THEN t ELSE docs[id].topic)
            /\ after[id].content = (IF x # NULL THEN x ELSE docs[id].content)
            /\ \A o \in DOMAIN docs \ {id} : after[o] = docs[o]

(***************************************************************************)
(* C13: update replaces the Vector Index entry of id by the embedding of   *)
(* the new content exactly when content is supplied; when only category    *)
(* and/or topic are supplied the Vector Index is unchanged and the Keyword *)
(* Index entry of id becomes the new (category, topic, content).           *)
(* Fails on the explicit write path: the DELETE on docs_fts reads the row  *)
(* that UPDATE has just written, so the old category stays posted.         *)
(***************************************************************************)
C13_VectorOnlyOnContent ==
  \A id \in DOMAIN docs :
    \A c \in Categories \cup {NULL}, t \in Topics \cup {NULL},
       x \in NewContents \cup {NULL} :
      LET out == UpdateOp(Db, path, id, c, t, x, "none")
      IN  out.status = "success" =>
            /\ x # NULL => /\ id \in DOMAIN out.db.vec
                           /\ out.db.vec[id] = Embed(x)
            /\ x = NULL => out.db.vec = docs_vec
            /\ (x = NULL /\ (c # NULL \/ t # NULL)) =>
                  Postings(out.db.fts, id) =
                    RowTokens(out.db.docs[id].category, out.db.docs[id].topic,
                              out.db.docs[id].content)

(***************************************************************************)
(* C14: update never changes last_verified_at or created_at of any record, *)
(* whatever fields are supplied.                                           *)
(***************************************************************************)
C14_UpdateKeepsTimestamps ==
  [][Called("update")
     => \A id \in DOMAIN docs :
          /\ id \in DOMAIN docs'
          /\ docs'[id].timestamp = docs[id].timestamp
          /\ docs'[id].last_verified = docs[id].last_verified]_vars

\* an update with fields has succeeded on a record of the engine that keeps
\* last_verified, at a time later than the record's last_verified
C14_Witness ==
  /\ path = "explicit"
  /\ ret.op = "update"
  /\ ret.supplied
  /\ ret.status = "success"
  /\ docs[ret.doc_id].last_verified < now

(***************************************************************************)
(* C15: verify(id) on an existing id sets the record's last_verified_at to *)
(* the current time and changes nothing else: not its category, topic,     *)
(* content or created_at, no other record, not the Keyword Index and not   *)
(* the Vector Index.                                                       *)
(***************************************************************************)
C15_VerifyOnlyStamps ==
  [][(/\ Called("verify")
      /\ ret'.doc_id \in DOMAIN docs
      /\ ret'.status # "raised")
     => (/\ ret'.status = "success"
         /\ docs' = [docs EXCEPT ![ret'.doc_id].last_verified = now]
         /\ docs_fts' = docs_fts
         /\ docs_vec' = docs_vec)]_vars

\* a verify has moved last_verified past the creation time
C15_Witness ==
  /\ ret.op = "verify"
  /\ ret.status = "success"
  /\ docs[ret.doc_id].last_verified = now
  /\ docs[ret.doc_id].timestamp < now

(***************************************************************************)
(* C16: for an existing id, two successive verify(id) calls both return    *)
(* success and last_verified_at never decreases: every verify call on an   *)
(* existing id, the second of two in a row included, succeeds and leaves   *)
(* last_verified_at at least what it was.  The clock does not run          *)
(* backwards.                                                              *)
(***************************************************************************)
C16_VerifyTwiceAdvances ==
  [][(/\ Called("verify")
      /\ ret'.doc_id \in DOMAIN docs
      /\ ret'.status # "raised")
     => (/\ ret'.status = "success"
         /\ docs'[ret'.doc_id].last_verified
              >= docs[ret'.doc_id].last_verified)]_vars

\* the second of two verify calls in a row has returned, later than the
\* record was created
C16_Witness ==
  /\ streak = 2
  /\ ret.doc_id \in DOMAIN docs
  /\ docs[ret.doc_id].last_verified > docs[ret.doc_id].timestamp

(***************************************************************************)
(* C17: for every top_k <= 0, zero and negative, every store content and   *)
(* every query text, query returns the empty list.                         *)
(* Fails: the result is cut with final_results[:top_k], which for a        *)
(* negative top_k drops that many results from the end and returns the     *)
(* rest.                                                                   *)
(***************************************************************************)
C17_NonPositiveTopKIsEmpty ==
  \A q \in QueryTexts, k \in {n \in TopKs : n <= 0} :
    LET out == QueryOp(Db, path, q, k, now, "none")
    IN  out.status = "success" => out.results = <<>>

(***************************************************************************)
(* The ranking query of RankSpec, seen from outside.                       *)
(***************************************************************************)
FrameFused(id) == FusedScore(frame.fts_rows, frame.vec_rows, id)

FrameFresh(id) == FreshnessE4(frame.verified[id], now)

\* the sign of p/q - r/s for p, r >= 0 and q, s > 0, by comparing integer
\* parts and then the remainders, so that no product leaves the integers
RECURSIVE FracCmp(_, _, _, _)
FracCmp(p, q, r, s) ==
  IF p \div q # r \div s THEN (IF p \div q > r \div s THEN 1 ELSE 0 - 1)
  ELSE IF p % q = 0 /\ r % s = 0 THEN 0
  ELSE IF p % q = 0 THEN 0 - 1
  ELSE IF r % s = 0 THEN 1
  ELSE FracCmp(s, r % s, q, p % q)

\* final_score = base_score * freshness_factor of a is greater than that of b
FrameFinalGt(a, b) ==
  FracCmp(FrameFused(a)[1] * FrameFresh(a), FrameFused(a)[2],
          FrameFused(b)[1] * FrameFresh(b), FrameFused(b)[2]) = 1

FrameWorkingSet ==
  Candidates(frame.fts_rows, frame.vec_rows, frame.top_k)

FrameResultIds == [i \in 1..Len(frame.results) |-> frame.results[i].id]

\* id is at 1-based position n of list
RankedAt(list, id, n) == n <= Len(list) /\ list[n] = id

(***************************************************************************)
(* C18: for top_k >= 1 query returns at most top_k results, ordered by     *)
(* non-increasing final_score (fused score times freshness multiplier),    *)
(* results of equal final_score in working-set order, and each result      *)
(* carries the final score and the fused score.                            *)
(* Fails: the results are sorted on the score rounded to four decimals,    *)
(* so two results whose final scores round to the same value stay in       *)
(* working-set order although the second has the larger final score.       *)
(***************************************************************************)
C18_OrderedByFinalScore ==
  (frame.pc = "done" /\ frame.top_k >= 1) =>
    LET r  == frame.results
        ws == FrameWorkingSet
    IN  /\ Len(r) <= frame.top_k
        /\ \A i \in 1..Len(r), j \in 1..Len(r) :
              i < j =>
                /\ ~FrameFinalGt(r[j].id, r[i].id)
                /\ ~FrameFinalGt(r[i].id, r[j].id)
                      => IndexOf(ws, r[i].id) < IndexOf(ws, r[j].id)
        /\ \A i \in 1..Len(r) :
              /\ r[i].score = RoundE4(FrameFused(r[i].id), FrameFresh(r[i].id))
              /\ r[i].base_score = RoundE4(FrameFused(r[i].id), 10000)

(***************************************************************************)
(* C19, as claimed: a document ranked 1st in the keyword list and absent   *)
(* from the vector list gets a strictly higher fused score than a document *)
(* ranked 20th in both lists.                                              *)
(* Fails: 1/60 < 1/79 + 1/79.                                              *)
(***************************************************************************)
C19_KeywordFirstBeatsTwentiethInBoth ==
  frame.pc = "done" =>
    \A a \in RankIds, b \in RankIds :
      (/\ RankedAt(frame.fts_rows, a, 1)
       /\ ~InSeq(frame.vec_rows, a)
       /\ RankedAt(frame.fts_rows, b, 20)
       /\ RankedAt(frame.vec_rows, b, 20))
        => FracGt(FrameFused(a), FrameFused(b))

(***************************************************************************)
(* C19, amended: a document ranked 1st in the keyword list and absent from *)
(* the vector list gets a strictly lower fused score than a document       *)
(* ranked 20th in both lists.                                              *)
(***************************************************************************)
C19_TwentiethInBothBeatsKeywordFirst ==
  frame.pc = "done" =>
    \A a \in RankIds, b \in RankIds :
      (/\ RankedAt(frame.fts_rows, a, 1)
       /\ ~InSeq(frame.vec_rows, a)
       /\ RankedAt(frame.fts_rows, b, 20)
       /\ RankedAt(frame.vec_rows, b, 20))
        => FracGt(FrameFused(b), FrameFused(a))

\* a query has ranked twenty keyword hits led by id 1 and twenty vector hits
\* without id 1, id 20 being last in both
C19_Witness ==
  /\ frame.pc = "done"
  /\ frame.fts_rows = Listing(20, 1)
  /\ frame.vec_rows = Listing(20, 21)
  /\ frame.top_k = 6
  /\ Len(frame.results) = 6

(***************************************************************************)
(* C20: of two records of the working set with equal fused score, one      *)
(* verified now and one verified 365 days ago, the newer has the strictly  *)
(* greater final_score and is returned before the older.                   *)
(***************************************************************************)
C20_FresherRanksFirst ==
  frame.pc = "done" =>
    LET ws  == FrameWorkingSet
        ids == FrameResultIds
        in_ws == {ws[i] : i \in 1..Len(ws)} \cap DOMAIN frame.verified
    IN  \A a \in in_ws, b \in in_ws :
          (/\ frame.verified[a] = now
           /\ frame.verified[b] = now - 365
           /\ ~FracGt(FrameFused(a), FrameFused(b))
           /\ ~FracGt(FrameFused(b), FrameFused(a)))
            => /\ FrameFinalGt(a, b)
               /\ InSeq(ids, b)
                     => /\ InSeq(ids, a)
                        /\ IndexOf(ids, a) < IndexOf(ids, b)
                        /\ frame.results[IndexOf(ids, a)].score
                             > frame.results[IndexOf(ids, b)].score

\* both records were returned, the older one having been first in the
\* working set
C20_Witness ==
  /\ frame.pc = "done"
  /\ frame.fts_rows = <<2, 1>>
  /\ frame.vec_rows = <<1, 2>>
  /\ frame.verified[1] = now
  /\ frame.verified[2] = now - 365
  /\ FrameWorkingSet = <<2, 1>>
  /\ FrameResultIds = <<1, 2>>


(***************************************************************************)
(* C21: when the last_verified of a candidate is missing or does not parse *)
(* as a timestamp, query still returns: that candidate is in the result    *)
(* whenever top_k leaves room for the whole working set, its score is its  *)
(* fused score (multiplier 1.0), and every other result carries its fused  *)
(* score times its own freshness multiplier.                               *)
(***************************************************************************)
C21_UnparsableVerifiedIsNeutral ==
  frame.pc = "done" =>
    LET r     == frame.results
        ids   == FrameResultIds
        ws    == FrameWorkingSet
        in_ws == {ws[i] : i \in 1..Len(ws)} \cap DOMAIN frame.verified
    IN  /\ \A i \in 1..Len(r) :
              IF frame.verified[r[i].id] = NoTime
              THEN r[i].score = RoundE4(FrameFused(r[i].id), 10000)
              ELSE r[i].score =
                     RoundE4(FrameFused(r[i].id),
                             IF now - frame.verified[r[i].id] <= 0 THEN 10000
                             ELSE DecayE4[now - frame.verified[r[i].id]])
        /\ frame.top_k >= Cardinality(in_ws)
              => {ids[i] : i \in 1..Len(ids)} = in_ws

\* a query returned a record whose last_verified does not parse ahead of a
\* record of the same fused score that was verified 365 days before
C21_Witness ==
  /\ frame.pc = "done"
  /\ frame.fts_rows = <<2, 1>>
  /\ frame.vec_rows = <<1, 2>>
  /\ frame.verified[1] = NoTime
  /\ frame.verified[2] = now - 365
  /\ FrameResultIds = <<1, 2>>
  /\ frame.results[1].score = frame.results[1].base_score
  /\ frame.results[2].score < frame.results[2].base_score


(***************************************************************************)
(* C22: in every state where, for a query text, the keyword search and the *)
(* vector search both return no hits, query returns the empty list and     *)
(* raises no error, for every top_k.                                       *)
(***************************************************************************)
C22_NoHitsIsEmpty ==
  \A q \in QueryTexts :
    (/\ ~FtsSyntaxError(q)
     /\ VecKnn(docs_vec, Embed(q)) = <<>>
     /\ FtsMatch(docs_fts, q) = <<>>)
      => \A k \in TopKs :
           QueryOp(Db, path, q, k, now, "none")
             = [status |-> "success", results |-> <<>>]

\* a query has returned the empty list from a store whose last record was
\* deleted and whose two indexes hold nothing
C22_Witness ==
  /\ ret.op = "query"
  /\ ret.status = "success"
  /\ ret.results = <<>>
  /\ deleted # {}
  /\ DOMAIN docs_vec = {}
  /\ KeywordIds(docs_fts) = {}


(***************************************************************************)
(* The calls of ConcSpec, seen from outside.                               *)
(***************************************************************************)
AllDone == \A t \in Tids : threads[t].pc = "done"

\* what a call does to the tables when it runs alone
Alone(S, th) ==
  IF th.op = "save"
  THEN SaveOp(S, path, <<"test">>, <<"T">>, th.content, now, th.fail).db
  ELSE IF th.op = "update"
  THEN UpdateOp(S, path, th.doc_id, NULL, NULL, th.content, th.fail).db
  ELSE IF th.op = "delete"
  THEN DeleteOp(S, path, th.doc_id, th.fail).db
  ELSE S

(***************************************************************************)
(* C23: a query that ran while a save, update or delete was in flight on   *)
(* the shared connection returns what it returns on the tables as they     *)
(* were before the mutation or as they are after it.                       *)
(* Fails: the query reads through the connection the mutation writes       *)
(* through, so its two searches see the writes made so far: the keyword    *)
(* search finds a record that the vector search, run before the vector     *)
(* insert, does not.                                                       *)
(***************************************************************************)
C23_QuerySeesWholeMutations ==
  (AllDone /\ threads[2].op = "query") =>
    threads[2].results
      \in {QueryResults(ConcStart, path, threads[2].content, ConcTopK, now),
           QueryResults(Db, path, threads[2].content, ConcTopK, now)}

(***************************************************************************)
(* C24: two mutations issued from different threads leave the tables as    *)
(* running them one after the other, in one order or the other, leaves     *)
(* them; in particular a mutation that raises leaves none of its writes.   *)
(* Fails: the COMMIT that ends one mutation makes the writes the other has *)
(* made so far permanent, and the ROLLBACK of the other then has nothing   *)
(* left to undo; a ROLLBACK likewise discards the writes the other has     *)
(* made so far.                                                            *)
(***************************************************************************)
C24_MutationsSerialize ==
  (AllDone /\ threads[2].op # "query") =>
    Db \in {Alone(Alone(ConcStart, threads[1]), threads[2]),
            Alone(Alone(ConcStart, threads[2]), threads[1])}


(***************************************************************************)
(* The calls on the agenda engine, seen from outside.                      *)
(***************************************************************************)
\* the arguments update_agenda is called with
UpdateAgendaArgs ==
  {<<a, list, td[1], td[2]>> :
     a \in IsActiveArgs, list \in NewTaskLists,
     td \in {<<NULL, NULL>>, <<Titles[2], Descriptions[2]>>}}

(***************************************************************************)
(* C25: an agenda that is inactive is, after any call of create_agenda,    *)
(* update_task, update_agenda, delete_agenda or search_agendas, inactive   *)
(* or gone, and an agenda that is gone does not come back; and             *)
(* update_agenda with is_active=True on an inactive agenda returns an      *)
(* error, whatever its other arguments.                                    *)
(***************************************************************************)
C25_DeactivationIrreversible ==
  /\ [][\A id \in AgendaIds :
          /\ (Inactive(id) /\ id \in DOMAIN agendas')
                => ~agendas'[id].is_active
          /\ (id <= sqlite_sequence.agendas /\ id \notin DOMAIN agendas)
                => id \notin DOMAIN agendas']_vars
  /\ [](\A id \in {x \in AgendaIds : Inactive(x)},
           args \in UpdateAgendaArgs :
          args[1] = "True" =>
            UpdateAgendaOp(AgendaDb, id, args[1], args[2], args[3],
                           args[4]).status = "error")

\* update_agenda(is_active=True) has returned an error on an agenda that is
\* inactive
C25_Witness ==
  /\ agenda_ret.op = "update_agenda"
  /\ agenda_ret.status = "error"
  /\ agenda_ret.is_active = "True"
  /\ Inactive(agenda_ret.id)


(***************************************************************************)
(* C26: whenever update_task succeeds (its task then belongs to an agenda  *)
(* that was active), that agenda is inactive afterwards exactly when none  *)
(* of its non-optional tasks has is_completed false; in particular,        *)
(* completing an optional task while a non-optional task of the agenda is  *)
(* incomplete leaves the agenda active.                                    *)
(***************************************************************************)
C26_InactiveIffRequiredDone ==
  \A x \in TaskIds, c \in BOOLEAN :
    LET out == UpdateTaskOp(AgendaDb, x, c)
    IN  out.status = "success" =>
          LET id   == tasks[x].agenda_id
              open == {y \in DOMAIN out.db.tasks :
                         /\ out.db.tasks[y].agenda_id = id
                         /\ ~out.db.tasks[y].is_optional
                         /\ ~out.db.tasks[y].is_completed}
          IN  /\ agendas[id].is_active
              /\ out.db.tasks[x].is_completed = c
              /\ ~out.db.agendas[id].is_active <=> open = {}
              /\ (c /\ tasks[x].is_optional /\ open # {})
                    => out.db.agendas[id].is_active

\* update_task has completed the optional task of an agenda whose
\* non-optional task is incomplete, and the agenda is active
C26_Witness ==
  /\ agenda_ret.op = "update_task"
  /\ agenda_ret.status = "success"
  /\ agenda_ret.id \in DOMAIN tasks
  /\ tasks[agenda_ret.id].is_optional
  /\ tasks[agenda_ret.id].is_completed
  /\ tasks[agenda_ret.id].agenda_id \in DOMAIN agendas
  /\ agendas[tasks[agenda_ret.id].agenda_id].is_active
  /\ \E y \in TasksOf(tasks, tasks[agenda_ret.id].agenda_id) :
        ~tasks[y].is_optional /\ ~tasks[y].is_completed


(***************************************************************************)
(* C27: while an agenda is inactive, update_task on each of its tasks and  *)
(* update_agenda with tasks to add return an error, and no call changes    *)
(* the set of its tasks or the is_completed flag of any of them.           *)
(***************************************************************************)
C27_InactiveIsFrozen ==
  /\ [](\A id \in {x \in AgendaIds : Inactive(x)} :
          /\ \A x \in TasksOf(tasks, id), c \in BOOLEAN :
               UpdateTaskOp(AgendaDb, x, c).status = "error"
          /\ \A args \in UpdateAgendaArgs :
               Len(args[2]) > 0 =>
                 UpdateAgendaOp(AgendaDb, id, args[1], args[2], args[3],
                                args[4]).status = "error")
  /\ [][\A id \in {x \in AgendaIds : Inactive(x)} :
          id \in DOMAIN agendas' =>
            /\ TasksOf(tasks', id) = TasksOf(tasks, id)
            /\ \A x \in TasksOf(tasks, id) :
                 tasks'[x].is_completed = tasks[x].is_completed]_vars

\* update_task has returned an error on an incomplete task of an inactive
\* agenda
C27_Witness ==
  /\ agenda_ret.op = "update_task"
  /\ agenda_ret.status = "error"
  /\ agenda_ret.id \in DOMAIN tasks
  /\ ~tasks[agenda_ret.id].is_completed
  /\ Inactive(tasks[agenda_ret.id].agenda_id)


(***************************************************************************)
(* C28: delete_agenda succeeds exactly on an existing inactive agenda; on  *)
(* an active agenda or an absent id it returns an error and leaves the     *)
(* agendas, the tasks and the search index as they were; no step removes   *)
(* an agenda that is active.                                               *)
(***************************************************************************)
C28_DeleteOnlyInactive ==
  /\ [](\A id \in AgendaIds :
          LET out == DeleteAgendaOp(AgendaDb, id)
          IN  /\ out.status = "success" <=> Inactive(id)
              /\ out.status = "success" => id \notin DOMAIN out.db.agendas
              /\ ~Inactive(id) =>
                   /\ out.status = "error"
                   /\ out.db = AgendaDb)
  /\ [][\A id \in DOMAIN agendas :
          agendas[id].is_active => id \in DOMAIN agendas']_vars

\* delete_agenda has returned an error on an active agenda that has tasks
C28_Witness ==
  /\ agenda_ret.op = "delete_agenda"
  /\ agenda_ret.status = "error"
  /\ agenda_ret.id \in DOMAIN agendas
  /\ agendas[agenda_ret.id].is_active
  /\ TasksOf(tasks, agenda_ret.id) # {}

(***************************************************************************)
(* C29: every stored task references an existing agenda, and update_task   *)
(* on every stored task id returns a result (success or error) rather than *)
(* raising.                                                                *)
(***************************************************************************)
C29_TasksReferenceAgendas ==
  \A x \in DOMAIN tasks :
    /\ tasks[x].agenda_id \in DOMAIN agendas
    /\ \A c \in BOOLEAN :
         UpdateTaskOp(AgendaDb, x, c).status \in {"success", "error"}

(***************************************************************************)
(* C30: the search index equals the index built from the agendas that      *)
(* exist, one entry per agenda made of its current title and description;  *)
(* search_agendas returns the existing agendas whose title or description  *)
(* holds every term of the query, whatever the details of the tasks are.   *)
(***************************************************************************)
RECURSIVE Rebuild(_)
Rebuild(a) ==
  IF DOMAIN a = {} THEN EmptyFts
  ELSE LET id == Max(DOMAIN a)
       IN  FtsInsert(Rebuild(Drop(a, id)), id, a[id].title,
                     a[id].description, <<>>)

C30_IndexMatchesAgendas ==
  /\ agendas_fts = Rebuild(agendas)
  /\ \A q \in SearchQueries :
       LET out == SearchAgendasOp(AgendaDb, q)
       IN  /\ out.status = "success"
           /\ {out.results[i] : i \in 1..Len(out.results)}
                = {id \in DOMAIN agendas :
                     TokenSet(q) \subseteq
                       TokenSet(agendas[id].title)
                         \cup TokenSet(agendas[id].description)}

\* search_agendas has run on an agenda with an updated title and
\* description that has tasks, whose details match one of the queries
C30_Witness ==
  /\ agenda_ret.op = "search_agendas"
  /\ \E id \in DOMAIN agendas :
       /\ agendas[id].title = Titles[2]
       /\ agendas[id].description = Descriptions[2]
       /\ \E x \in TasksOf(tasks, id) : tasks[x].details \in SearchQueries


(***************************************************************************)
(* C31: the fused score of a document id is the sum over the keyword list  *)
(* and the vector list, each of at most 20 hits, of 1/(r+60) for the       *)
(* 0-based rank r of the id in the list; an id in one list only scores     *)
(* from that list alone; every result carries that sum, rounded, as its    *)
(* fused score.                                                            *)
(***************************************************************************)
\* the 0-based ranks at which id occurs in list
RanksOf(list, id) == {r \in 0..(Len(list) - 1) : list[r + 1] = id}

\* 1/(r+60) for the rank of id in list, nothing for an id not in it
Contribution(list, id) ==
  IF RanksOf(list, id) = {} THEN <<0, 1>>
  ELSE <<1, Max(RanksOf(list, id)) + 60>>

C31_FusedIsSumOfReciprocalRanks ==
  frame.pc = "done" =>
    LET f == frame.fts_rows
        v == frame.vec_rows
        r == frame.results
        sum(id) == <<Contribution(f, id)[2] * Contribution(v, id)[1]
                       + Contribution(f, id)[1] * Contribution(v, id)[2],
                     Contribution(f, id)[2] * Contribution(v, id)[2]>>
    IN  /\ Len(f) <= 20 /\ Len(v) <= 20
        /\ \A id \in RankIds :
             /\ Cardinality(RanksOf(f, id)) <= 1
             /\ Cardinality(RanksOf(v, id)) <= 1
             /\ FrameFused(id)[1] * sum(id)[2] = sum(id)[1] * FrameFused(id)[2]
             /\ RanksOf(v, id) = {} =>
                  FrameFused(id)[1] * Contribution(f, id)[2]
                    = Contribution(f, id)[1] * FrameFused(id)[2]
             /\ RanksOf(f, id) = {} =>
                  FrameFused(id)[1] * Contribution(v, id)[2]
                    = Contribution(v, id)[1] * FrameFused(id)[2]
        /\ \A i \in 1..Len(r) :
             r[i].base_score = RoundE4(sum(r[i].id), 10000)

\* a query has returned a record that is first in the keyword list and
\* second in the vector list, and a record that is in the vector list only
C31_Witness ==
  /\ frame.pc = "done"
  /\ \E i \in 1..Len(frame.results), j \in 1..Len(frame.results) :
       /\ RanksOf(frame.fts_rows, frame.results[i].id) = {0}
       /\ RanksOf(frame.vec_rows, frame.results[i].id) = {1}
       /\ RanksOf(frame.fts_rows, frame.results[j].id) = {}
       /\ RanksOf(frame.vec_rows, frame.results[j].id) = {0}


(***************************************************************************)
(* C32: every result of query is one of the first max(2*top_k, 10)         *)
(* candidates in the order of descending fused score, candidates of equal  *)
(* fused score in first-seen order (keyword hits, then vector hits); a     *)
(* candidate behind them is not returned, also when its final score is     *)
(* greater than that of a returned result.                                 *)
(***************************************************************************)
\* the 1-based place of the first occurrence of id in the keyword hits
\* followed by the vector hits
FirstSeen(id) ==
  LET both == frame.fts_rows \o frame.vec_rows
  IN  CHOOSE n \in 1..Len(both) :
        both[n] = id /\ \A m \in 1..(n - 1) : both[m] # id

FrameCandidateIds ==
  {frame.fts_rows[i] : i \in 1..Len(frame.fts_rows)}
    \cup {frame.vec_rows[i] : i \in 1..Len(frame.vec_rows)}

\* the candidates that come before id in the order of the working set
Ahead(id) ==
  {c \in FrameCandidateIds :
     \/ FracGt(FrameFused(c), FrameFused(id))
     \/ /\ ~FracGt(FrameFused(id), FrameFused(c))
        /\ FirstSeen(c) < FirstSeen(id)}

InWorkingSet(id) ==
  /\ id \in FrameCandidateIds
  /\ Cardinality(Ahead(id))
       < (IF 2 * frame.top_k > 10 THEN 2 * frame.top_k ELSE 10)

C32_ResultsFromWorkingSet ==
  frame.pc = "done" =>
    \A i \in 1..Len(frame.results) : InWorkingSet(frame.results[i].id)

\* a query has returned a record although a candidate outside the working
\* set, whose record exists, has the greater final score
C32_Witness ==
  /\ frame.pc = "done"
  /\ \E i \in 1..Len(frame.results) :
       \E c \in FrameCandidateIds \cap DOMAIN frame.verified :
         /\ ~InWorkingSet(c)
         /\ FrameFinalGt(c, frame.results[i].id)


(***************************************************************************)
(* C33: the freshness multiplier of every candidate is between 0.5 and     *)
(* 1.0, is not greater for the older of two last_verified, and is 1.0 for  *)
(* a last_verified at or after the time query reads; every result's final  *)
(* score is at most its fused score, and equal to it for a last_verified   *)
(* at or after that time.                                                  *)
(***************************************************************************)
C33_FreshnessBounded ==
  frame.pc = "done" =>
    LET v == frame.verified
        r == frame.results
        parsed == {id \in DOMAIN v : v[id] # NoTime}
    IN  /\ \A id \in DOMAIN v :
             /\ 5000 <= FrameFresh(id) /\ FrameFresh(id) <= 10000
             /\ (id \in parsed /\ v[id] >= now) => FrameFresh(id) = 10000
        /\ \A a \in parsed, b \in parsed :
             v[a] <= v[b] => FrameFresh(a) <= FrameFresh(b)
        /\ \A i \in 1..Len(r) :
             /\ r[i].score <= r[i].base_score
             /\ FracCmp(FrameFused(r[i].id)[1] * FrameFresh(r[i].id),
                        FrameFused(r[i].id)[2] * 10000,
                        FrameFused(r[i].id)[1], FrameFused(r[i].id)[2]) <= 0
             /\ (r[i].id \in parsed /\ v[r[i].id] >= now)
                  => r[i].score = r[i].base_score

\* a query has returned a record verified after the time it read, with its
\* fused score, and a record verified before, with less
C33_Witness ==
  /\ frame.pc = "done"
  /\ \E i \in 1..Len(frame.results), j \in 1..Len(frame.results) :
       /\ frame.verified[frame.results[i].id] > now
       /\ frame.results[i].score = frame.results[i].base_score
       /\ frame.verified[frame.results[j].id] # NoTime
       /\ frame.verified[frame.results[j].id] < now
       /\ frame.results[j].score < frame.results[j].base_score


(***************************************************************************)
(* C34: under fair scheduling of the threads, every save, update, delete,  *)
(* verify and query call, also one that runs while another call is in      *)
(* flight, eventually returns: with success, with a structured error or    *)
(* with a raised failure.                                                  *)
(***************************************************************************)
C34_EveryCallReturns ==
  \A t \in Tids :
    <>(/\ threads[t].pc = "done"
       /\ threads[t].status \in {"success", "error", "raised"})

\* a verify and a save that raised have both returned
C34_Witness ==
  /\ AllDone
  /\ \E t \in Tids : threads[t].op = "verify" /\ threads[t].status = "success"
  /\ \E t \in Tids : threads[t].op = "save" /\ threads[t].status = "raised"


(***************************************************************************)
(* C35: the engine that keeps its indexes by triggers and the engine that  *)
(* writes them itself return the same result and leave the same Document   *)
(* Store, Keyword Index and Vector Index for every save, update and delete *)
(* call made on the same tables; by induction on the calls, so do they for *)
(* every sequence of calls from the same state.  The tables compared are   *)
(* the ones the trigger engine has reached; the columns compared are the   *)
(* ones both engines store.                                                *)
(* Fails: the explicit update and delete run DELETE FROM docs_fts WHERE    *)
(* rowid = ? after they have changed or removed the docs row, and the      *)
(* index takes the tokens to remove from that row: the old keyword entry   *)
(* stays.  The triggers pass the old values and remove it.                 *)
(***************************************************************************)
\* the tables without the column only one engine has
SharedColumns(S) ==
  [S EXCEPT !.docs = [id \in DOMAIN S.docs |->
                        [category |-> S.docs[id].category,
                         topic |-> S.docs[id].topic,
                         content |-> S.docs[id].content,
                         timestamp |-> S.docs[id].timestamp]]]

SameOutcome(a, b) ==
  /\ a.status = b.status
  /\ a.doc_id = b.doc_id
  /\ SharedColumns(a.db) = SharedColumns(b.db)

C35_WritePathsEquivalent ==
  path = "trigger" =>
    /\ \A c \in Categories, t \in Topics, x \in Contents :
         NextRowid(docs) <= MaxId =>
           SameOutcome(SaveOp(Db, "trigger", c, t, x, now, "none"),
                       SaveOp(Db, "explicit", c, t, x, now, "none"))
    /\ \A id \in Ids, c \in Categories \cup {NULL}, t \in Topics \cup {NULL},
          x \in NewContents \cup {NULL} :
         SameOutcome(UpdateOp(Db, "trigger", id, c, t, x, "none"),
                     UpdateOp(Db, "explicit", id, c, t, x, "none"))
    /\ \A id \in Ids :
         SameOutcome(DeleteOp(Db, "trigger", id, "none"),
                     DeleteOp(Db, "explicit", id, "none"))


(***************************************************************************)
(* C36: a query call, whatever its text and top_k and whether it returns   *)
(* or raises, leaves the Document Store (last_verified included), the      *)
(* Keyword Index and the Vector Index as they were.                        *)
(***************************************************************************)
C36_QueryIsReadOnly ==
  [][Called("query") => UNCHANGED stores]_vars

\* a query has returned a record that was last verified before the time of
\* the query
C36_Witness ==
  /\ ret.op = "query"
  /\ ret.status = "success"
  /\ \E i \in 1..Len(ret.results) :
       /\ ret.results[i].id \in DOMAIN docs
       /\ docs[ret.results[i].id].last_verified # NoTime
       /\ docs[ret.results[i].id].last_verified < now


(***************************************************************************)
(* C37: every result of a query has the id of a record that is in the      *)
(* Document Store and carries the category, topic and content the record   *)
(* has; a keyword or vector hit whose id has no record is not among the    *)
(* results; no id occurs twice in a result list.                           *)
(***************************************************************************)
\* the results are records of d, each at most once
ResultsAreRecords(results, d) ==
  /\ \A i \in 1..Len(results) :
       /\ results[i].id \in DOMAIN d
       /\ results[i].category = d[results[i].id].category
       /\ results[i].topic = d[results[i].id].topic
       /\ results[i].content = d[results[i].id].content
  /\ \A i \in 1..Len(results), j \in 1..Len(results) :
       results[i].id = results[j].id => i = j

\* of every query made, and of the query for "blue" on every store that
\* holds an index entry without a record
C37_ResultsAreStoredRecords ==
  /\ ret.op = "query" => ResultsAreRecords(ret.results, docs)
  /\ (KeywordIds(docs_fts) \cup DOMAIN docs_vec) \ DOMAIN docs # {}
       => ResultsAreRecords(
            QueryOp(Db, path, <<"blue">>, 2, now, "none").results, docs)

\* a query finds a keyword hit whose record is gone next to a hit whose
\* record exists, and returns a result
C37_Witness ==
  /\ \E i \in 1..Len(FtsMatch(docs_fts, <<"blue">>)) :
       FtsMatch(docs_fts, <<"blue">>)[i] \notin DOMAIN docs
  /\ \E i \in 1..Len(FtsMatch(docs_fts, <<"blue">>)) :
       FtsMatch(docs_fts, <<"blue">>)[i] \in DOMAIN docs
  /\ QueryOp(Db, path, <<"blue">>, 2, now, "none").results # <<>>


(***************************************************************************)
(* C38: whenever update_agenda returns an error (agenda not found, an      *)
(* inactive agenda asked to become active, tasks to add to an inactive     *)
(* agenda), the title, the description and the is_active flag of the       *)
(* agenda and all tasks are as before the call, whatever title,            *)
(* description and is_active the call supplied.                            *)
(* Fails: the error is returned from inside the with block after the       *)
(* UPDATE of title and description, and after the UPDATE that clears       *)
(* is_active, have run; leaving the block by return commits them.          *)
(***************************************************************************)
C38_ErrorLeavesAgendaUnchanged ==
  \A id \in AgendaIds, args \in UpdateAgendaArgs :
    LET out == UpdateAgendaOp(AgendaDb, id, args[1], args[2], args[3],
                              args[4])
    IN  out.status = "error" =>
          /\ out.db.agendas = agendas
          /\ out.db.tasks = tasks



(***************************************************************************)
(* Engine start on a database file that already exists.                    *)
(*                                                                         *)
(* MemoryEngine.__init__ opens the file and runs _init_db.  Every CREATE   *)
(* is IF NOT EXISTS, so the docs table of the file is taken as it is.  A   *)
(* file can predate the indexes: docs_fts can be absent, or be the older   *)
(* table without the category column, and docs_vec can lack the rows of    *)
(* records written before the vector index existed.                        *)
(***************************************************************************)

\* INSERT INTO docs_fts (rowid, category, topic, content) SELECT ... FROM
\* docs, and the row-by-row loop of agent_memory: index every row of docs
\* under the given columns
RECURSIVE IndexAll(_, _)
IndexAll(d, columns) ==
  IF DOMAIN d = {} THEN EmptyFts
  ELSE LET id == Max(DOMAIN d)
       IN  FtsInsert(IndexAll(Drop(d, id), columns), id,
                     IF "category" \in columns THEN d[id].category ELSE <<>>,
                     d[id].topic, d[id].content)

\* projectcontext: the table is dropped and rebuilt when PRAGMA table_info
\* lists no category column, which is also the case when there is no table;
\* then every row of docs without a row in docs_vec is embedded.
ProjectContextInitDb(S, columns) ==
  LET missing == DOMAIN S.docs \ DOMAIN S.vec
  IN  [db |->
         [docs |-> S.docs,
          fts  |-> IF "category" \notin columns
                   THEN IndexAll(S.docs, FtsColumns) ELSE S.fts,
          vec  |-> [id \in DOMAIN S.vec \cup missing |->
                      IF id \in missing THEN Embed(S.docs[id].content)
                      ELSE S.vec[id]]],
       columns |-> FtsColumns]

\* agent_memory: CREATE VIRTUAL TABLE IF NOT EXISTS docs_fts runs before
\* sqlite_master is asked whether the table exists, so a missing table has
\* been created (empty) by then and only the table without the category
\* column is rebuilt; docs_vec is created and nothing is inserted into it.
AgentMemoryInitDb(S, columns) ==
  [db |->
     [docs |-> S.docs,
      fts  |-> IF columns = {} THEN EmptyFts
               ELSE IF "category" \notin columns
                    THEN IndexAll(S.docs, FtsColumns) ELSE S.fts,
      vec  |-> S.vec],
   columns |-> FtsColumns]

InitDbOp(S, p, columns) ==
  IF p = "trigger" THEN ProjectContextInitDb(S, columns)
  ELSE AgentMemoryInitDb(S, columns)

\* the files an engine can be started on: records with or without their
\* embeddings, under each state of the docs_fts table
PriorStores(p) ==
  {[db |-> [docs |-> d,
            fts  |-> IF columns = {} THEN EmptyFts ELSE IndexAll(d, columns),
            vec  |-> [id \in have \cap DOMAIN d |->
                        Embed(d[id].content)]],
    columns |-> columns] :
     d \in UNION {[ids -> {Row(<<"test">>, <<"T">>, c, 0, p) :
                              c \in NewContents}] : ids \in SUBSET Ids},
     have \in SUBSET Ids,
     columns \in {{}, {"topic", "content"}, FtsColumns}}

StartInit ==
  /\ path \in Paths
  /\ \E prior \in PriorStores(path) :
       /\ docs = prior.db.docs
       /\ docs_fts = prior.db.fts
       /\ docs_vec = prior.db.vec
       /\ fts_columns = prior.columns
  /\ now = 0
  /\ ret = Call("none", "success", 0, FALSE, <<>>)
  /\ nops = 0
  /\ issued = DOMAIN docs
  /\ deleted = {}
  /\ streak = 0
  /\ frame = IdleFrame
  /\ NoThreads
  /\ AgendaEmpty

\* MemoryEngine(): the process starts, or starts again, on the file
InitDb ==
  /\ nops < MaxOps
  /\ \E out \in {InitDbOp(Db, path, fts_columns)} :
       /\ Install(out.db)
       /\ fts_columns' = out.columns
  /\ nops' = nops + 1
  /\ ret' = Call("init", "success", 0, FALSE, <<>>)
  /\ UNCHANGED <<path, now, issued, deleted, streak, frame, conc_vars,
                 agenda_vars>>

StartSpec == StartInit /\ [][InitDb]_vars

(***************************************************************************)
(* C39: engine initialisation on a store that already exists changes no    *)
(* field of any record and leaves every record with an entry in the        *)
(* Vector Index (missing embeddings are backfilled) and an entry in the    *)
(* Keyword Index; initialisation of the resulting store changes nothing.   *)
(* Fails for agent_memory: its _init_db embeds nothing, and it creates     *)
(* docs_fts before it asks whether the table exists, so its rebuild of a   *)
(* missing table never runs.                                               *)
(***************************************************************************)
C39_InitCompletesIndexes ==
  LET out == InitDbOp(Db, path, fts_columns)
  IN  /\ out.db.docs = docs
      /\ \A id \in DOMAIN docs :
           /\ id \in DOMAIN out.db.vec
           /\ id \in KeywordIds(out.db.fts)
      /\ InitDbOp(out.db, path, out.columns) = out

=============================================================================
